---- MODULE Spec2Model ----
(***************************************************************************)
(* Ride-share dispatch simulation: the event queue, the dispatcher, the    *)
(* driver and rider records, the five event handlers, the activity monitor *)
(* and the loop of Simulation.run.                                         *)
(*                                                                         *)
(* Objects are numbered: rider objects 1, 2, ... and driver objects         *)
(* likewise; None (0) stands     for Python's None where an object is       *)
(* expected and NoLocation for None where a Location is expected.  Two     *)
(* objects may carry the same id (Rider.__eq__ / Driver.__eq__ compare ids *)
(* only), so list membership is modelled by id, never by object number.    *)
(***************************************************************************)
EXTENDS Integers, Sequences, FiniteSets, TLC

VARIABLES events, next_uid, removed, produced,
          rider, driver, waiting_list, driver_list,
          activities, pc, initial_events, op, result, executed, created

vars == <<events, next_uid, removed, produced, rider, driver,
          waiting_list, driver_list, activities, pc, initial_events,
          op, result, executed, created>>

(***************************************************************************)
(* Bounds of the model.                                                    *)
(***************************************************************************)
MaxTime == 1
MaxPatience == 1
MaxAdds == 4
MaxQueueTime == 2
MaxWaiting == 3
MaxDistance == 7
MaxSpeed == 3

\* the rider objects and the driver objects
Riders == {1, 2}
Drivers == {1, 2}

None == 0
NoAnswer == <<"none", 0, 0>>
NoLocation == <<>>

\* rider.py: status constants
WAITING == "waiting"
CANCELLED == "cancelled"
SATISFIED == "satisfied"

\* monitor.py: category and description constants
RIDER == "rider"
DRIVER == "driver"
REQUEST == "request"
CANCEL == "cancel"
PICKUP == "pickup"
DROPOFF == "dropoff"

(***************************************************************************)
(* location.py                                                             *)
(***************************************************************************)
Location(row, column) == <<row, column>>

\* the places of the model: where riders start, where they go, where
\* drivers start, and the speeds of drivers
Origins == {Location(0, 0), Location(0, 1)}
Destinations == {Location(1, 1)}
DriverLocations == {Location(0, 0), Location(1, 1)}
Locations == Origins \cup Destinations \cup DriverLocations
Speeds == {1, 2}

abs(x) == IF x < 0 THEN -x ELSE x

manhattan_distance_signed(origin, destination) ==
    (origin[1] - destination[1]) + (origin[2] - destination[2])

manhattan_distance(origin, destination) ==
    abs(origin[1] - destination[1]) + abs(origin[2] - destination[2])

(***************************************************************************)
(* round(distance / speed) of Python 3: nearest integer, exact halves to   *)
(* the even neighbour.  distance >= 0 and speed > 0.                       *)
(***************************************************************************)
round_half_up(distance, speed) ==
    LET q == distance \div speed
        r == distance % speed
    IN  IF 2 * r < speed THEN q ELSE q + 1

round(distance, speed) ==
    LET q == distance \div speed
        r == distance % speed
    IN  IF 2 * r < speed THEN q
        ELSE IF 2 * r > speed THEN q + 1
        ELSE IF q % 2 = 0 THEN q ELSE q + 1

(***************************************************************************)
(* event.py: events.  uid is the position of the event in the order of     *)
(* PriorityQueue.add calls (0 while the event is not yet queued); it       *)
(* stands for the identity of the Python object and no handler reads it.   *)
(* executed lists the uids of the events the loop of run has done so far,  *)
(* and created the events run has added to its queue so far, in the order  *)
(* of their uids.                                                          *)
(***************************************************************************)
Event(kind, timestamp, r, d) ==
    [kind |-> kind, timestamp |-> timestamp, rider |-> r, driver |-> d,
     uid |-> 0]

NoEvent == Event("none", 0, None, None)

RiderRequest(timestamp, r) == Event("RiderRequest", timestamp, r, None)
DriverRequest(timestamp, d) == Event("DriverRequest", timestamp, None, d)
Cancellation(timestamp, r) == Event("Cancellation", timestamp, r, None)
Pickup(timestamp, r, d) == Event("Pickup", timestamp, r, d)
Dropoff(timestamp, r, d) == Event("Dropoff", timestamp, r, d)

Event__lt__LE(self, other) == self.timestamp <= other.timestamp

Event__lt__(self, other) == self.timestamp < other.timestamp

(***************************************************************************)
(* container.PriorityQueue: _items is kept sorted, smallest first; add     *)
(* puts the item in front of the first queued item it is less than, that   *)
(* is, behind every item that is not greater; remove takes the front.      *)
(***************************************************************************)
InsertAt(items, i, item) ==
    SubSeq(items, 1, i - 1) \o <<item>> \o SubSeq(items, i, Len(items))

PriorityQueue_position(items, item) ==
    LET greater == {i \in DOMAIN items : Event__lt__(item, items[i])}
    IN  IF greater = {} THEN Len(items) + 1
        ELSE CHOOSE i \in greater : \A j \in greater : i <= j

PriorityQueue_add(items, item, uid) ==
    LET stamped == [item EXCEPT !.uid = uid]
    IN  InsertAt(items, PriorityQueue_position(items, stamped), stamped)

PriorityQueue_is_empty(items) == items = <<>>

\* the value of _items after remove(); the item returned is Head(items)
PriorityQueue_remove(items) == Tail(items)

\* the events of new_events as add_all queues them: numbered from uid on
stamped(new_events, uid) ==
    [k \in DOMAIN new_events |-> [new_events[k] EXCEPT !.uid = uid + k - 1]]

RECURSIVE add_all(_, _, _)
add_all(items, new_events, uid) ==
    IF new_events = <<>> THEN items
    ELSE add_all(PriorityQueue_add(items, Head(new_events), uid),
                 Tail(new_events), uid + 1)

(***************************************************************************)
(* driver.py: the methods, on a driver record.  A method that reads the    *)
(* row of a None location raises AttributeError.                           *)
(***************************************************************************)
Driver(identifier, location, speed) ==
    [id |-> identifier, location |-> location, destination |-> NoLocation,
     speed |-> speed, is_idle |-> TRUE]

Driver__eq__(self, other) == self.id = other.id

get_travel_time_raises(self, destination) ==
    self.location = NoLocation \/ destination = NoLocation

get_travel_time_rows(self, destination) ==
    round(abs(self.location[1] - destination[1]), self.speed)

get_travel_time(self, destination) ==
    round(manhattan_distance(self.location, destination), self.speed)

start_drive_arrives(self, location) ==
    [self EXCEPT !.is_idle = FALSE, !.location = location,
                 !.destination = location]

\* the driver after start_drive; it returns get_travel_time of the result
start_drive(self, location) ==
    [self EXCEPT !.is_idle = FALSE, !.destination = location]

end_drive(self) ==
    [self EXCEPT !.is_idle = TRUE, !.location = self.destination,
                 !.destination = NoLocation]

start_ride_nowhere(self, rdr) ==
    [self EXCEPT !.is_idle = FALSE, !.location = rdr.origin]

\* the driver after start_ride; it returns get_travel_time of the result
start_ride(self, rdr) ==
    [self EXCEPT !.is_idle = FALSE, !.location = rdr.origin,
                 !.destination = rdr.destination]

end_ride_keeps_destination(self) ==
    [self EXCEPT !.is_idle = TRUE, !.location = self.destination]

end_ride(self) ==
    [self EXCEPT !.is_idle = TRUE, !.location = self.destination,
                 !.destination = NoLocation]

(***************************************************************************)
(* rider.py                                                                *)
(***************************************************************************)
Rider(identifier, patience, origin, destination) ==
    [id |-> identifier, patience |-> patience, origin |-> origin,
     destination |-> destination, status |-> WAITING]

Rider__eq__(self, other) == self.id = other.id

(***************************************************************************)
(* dispatcher.py.  dl is _driver_list and wl is _waiting_list (sequences   *)
(* of object numbers), drv and rdr the driver and rider records.           *)
(***************************************************************************)
first_available_driver_any(dl, drv) == IF dl = <<>> THEN None ELSE dl[1]

\* first loop of request_driver: the first idle driver of the roster
first_available_driver(dl, drv) ==
    LET idle == {i \in DOMAIN dl : drv[dl[i]].is_idle}
    IN  IF idle = {} THEN None
        ELSE dl[CHOOSE i \in idle : \A j \in idle : i <= j]

RECURSIVE closest_driver_last(_, _, _, _, _)
closest_driver_last(dl, drv, i, closest, rider_location) ==
    IF i > Len(dl) THEN closest
    ELSE IF /\ drv[dl[i]].is_idle
            /\ get_travel_time(drv[dl[i]], rider_location)
                 <= get_travel_time(drv[closest], rider_location)
         THEN closest_driver_last(dl, drv, i + 1, dl[i], rider_location)
         ELSE closest_driver_last(dl, drv, i + 1, closest, rider_location)

\* second loop of request_driver, from roster position i on
RECURSIVE closest_driver(_, _, _, _, _)
closest_driver(dl, drv, i, closest, rider_location) ==
    IF i > Len(dl) THEN closest
    ELSE IF /\ drv[dl[i]].is_idle
            /\ get_travel_time(drv[dl[i]], rider_location)
                 < get_travel_time(drv[closest], rider_location)
         THEN closest_driver(dl, drv, i + 1, dl[i], rider_location)
         ELSE closest_driver(dl, drv, i + 1, closest, rider_location)

\* request_driver raises when the second loop asks an idle driver that has
\* no location for its travel time
request_driver_raises(dl, drv, rider_location) ==
    \E i \in DOMAIN dl :
        /\ drv[dl[i]].is_idle
        /\ get_travel_time_raises(drv[dl[i]], rider_location)

\* the driver request_driver returns, None when no driver is idle
request_driver(dl, drv, rider_location) ==
    LET first == first_available_driver(dl, drv)
    IN  IF first = None THEN None
        ELSE closest_driver(dl, drv, 1, first, rider_location)

request_driver_waiting_always(wl, dl, drv, r) == Append(wl, r)

request_driver_waiting_front(wl, dl, drv, r) ==
    IF first_available_driver(dl, drv) = None THEN <<r>> \o wl ELSE wl

\* _waiting_list after request_driver(r)
request_driver_waiting(wl, dl, drv, r) ==
    IF first_available_driver(dl, drv) = None THEN Append(wl, r) ELSE wl

in_driver_list_identity(dl, drv, d) == \E i \in DOMAIN dl : dl[i] = d

\* driver in self._driver_list
in_driver_list(dl, drv, d) ==
    \E i \in DOMAIN dl : Driver__eq__(drv[dl[i]], drv[d])

\* _driver_list after request_rider(d)
request_rider_roster(dl, drv, d) ==
    IF in_driver_list(dl, drv, d) THEN dl ELSE Append(dl, d)

request_rider_last(wl) == IF Len(wl) > 0 THEN wl[Len(wl)] ELSE None

\* the rider request_rider returns, None when nobody waits
request_rider(wl) == IF Len(wl) > 0 THEN Head(wl) ELSE None

request_rider_waiting_keeps(wl) == wl

\* _waiting_list after request_rider
request_rider_waiting(wl) == IF Len(wl) > 0 THEN Tail(wl) ELSE wl

\* list.remove: drops the first element equal (by id) to rider r
RemoveAt(s, i) == SubSeq(s, 1, i - 1) \o SubSeq(s, i + 1, Len(s))

cancel_ride_waiting_identity(wl, rdr, r) ==
    LET same == {i \in DOMAIN wl : wl[i] = r}
    IN  IF same = {} THEN wl
        ELSE RemoveAt(wl, CHOOSE i \in same : \A j \in same : i <= j)

cancel_ride_waiting_keeps(wl, rdr, r) == wl

cancel_ride_waiting(wl, rdr, r) ==
    LET same == {i \in DOMAIN wl : Rider__eq__(rdr[wl[i]], rdr[r])}
    IN  IF same = {} THEN wl
        ELSE RemoveAt(wl, CHOOSE i \in same : \A j \in same : i <= j)

\* the rider records after cancel_ride(r)
cancel_ride_riders(rdr, r) == [rdr EXCEPT ![r].status = CANCELLED]

(***************************************************************************)
(* monitor.py: _activities[category] holds, per actor id, the list of the  *)
(* actor's activities.  It is kept here as one list per category in        *)
(* notification order; the list of one actor is the sub-list with its id.  *)
(***************************************************************************)
Activity(timestamp, description, identifier, location) ==
    [time |-> timestamp, description |-> description, id |-> identifier,
     location |-> location]

notify(acts, timestamp, category, description, identifier, location) ==
    [acts EXCEPT ![category] =
        Append(@, Activity(timestamp, description, identifier, location))]

\* the activities of one actor, in order: _activities[category][identifier]
activities_of(acts, category, identifier) ==
    SelectSeq(acts[category], LAMBDA a : a.id = identifier)

\* the ids that have a log in _activities[category]
actors(acts, category) == {acts[category][k].id : k \in DOMAIN acts[category]}

\* the loop of _average_wait_time over the logs of the riders in ids:
\* wait_time and count
RECURSIVE wait_times(_, _)
wait_times(acts, ids) ==
    IF ids = {} THEN [wait_time |-> 0, count |-> 0]
    ELSE LET i == CHOOSE x \in ids : TRUE
             log == activities_of(acts, RIDER, i)
             rest == wait_times(acts, ids \ {i})
         IN  IF Len(log) >= 2
             THEN [wait_time |-> rest.wait_time + (log[2].time - log[1].time),
                   count |-> rest.count + 1]
             ELSE rest

average_wait_time_from_zero(acts) ==
    LET timed == [acts EXCEPT ![RIDER] =
                     [k \in DOMAIN acts[RIDER] |->
                         IF acts[RIDER][k].description = REQUEST
                         THEN [acts[RIDER][k] EXCEPT !.time = 0]
                         ELSE acts[RIDER][k]]]
        total == wait_times(timed, actors(acts, RIDER))
    IN  IF total.count = 0 THEN [numerator |-> 0, denominator |-> 1]
        ELSE [numerator |-> total.wait_time, denominator |-> total.count]

\* _average_wait_time: the float it returns, as the fraction
\* numerator / denominator (0.0 is 0 / 1)
average_wait_time(acts) ==
    LET total == wait_times(acts, actors(acts, RIDER))
    IN  IF total.count = 0 THEN [numerator |-> 0, denominator |-> 1]
        ELSE [numerator |-> total.wait_time, denominator |-> total.count]

\* _average_total_distance raises when two consecutive activities of one
\* driver include one without a location
average_total_distance_raises(acts) ==
    \E a \in {acts[DRIVER][i] : i \in DOMAIN acts[DRIVER]} :
        LET log == activities_of(acts, DRIVER, a.id)
        IN  \E i \in 1..(Len(log) - 1) :
                log[i].location = NoLocation \/ log[i + 1].location = NoLocation

\* the inner loop of _average_total_distance from position i of one driver's
\* log: the distances between consecutive activities
RECURSIVE log_distance(_, _)
log_distance(log, i) ==
    IF i >= Len(log) THEN 0
    ELSE manhattan_distance(log[i].location, log[i + 1].location)
           + log_distance(log, i + 1)

\* the outer loop of _average_total_distance over the logs of the drivers
\* in ids: total_distance
RECURSIVE total_distance(_, _)
total_distance(acts, ids) ==
    IF ids = {} THEN 0
    ELSE LET i == CHOOSE x \in ids : TRUE
             log == activities_of(acts, DRIVER, i)
         IN  (IF Len(log) >= 2 THEN log_distance(log, 1) ELSE 0)
               + total_distance(acts, ids \ {i})

average_total_distance_moving(acts) ==
    LET ids == {i \in actors(acts, DRIVER) :
                   Len(activities_of(acts, DRIVER, i)) >= 2}
    IN  IF ids = {} THEN [numerator |-> 0, denominator |-> 1]
        ELSE [numerator |-> total_distance(acts, ids),
              denominator |-> Cardinality(ids)]

\* _average_total_distance: the float it returns, as the fraction
\* numerator / denominator (0.0 is 0 / 1)
average_total_distance(acts) ==
    LET ids == actors(acts, DRIVER)
    IN  IF ids = {} THEN [numerator |-> 0, denominator |-> 1]
        ELSE [numerator |-> total_distance(acts, ids),
              denominator |-> Cardinality(ids)]

\* the driver logs one after the other, in the order of the dictionary
\* (the order in which the ids were first notified)
RECURSIVE driver_logs(_, _)
driver_logs(acts, rest) ==
    IF rest = <<>> THEN <<>>
    ELSE LET i == Head(rest).id
         IN  activities_of(acts, DRIVER, i)
               \o driver_logs(acts, SelectSeq(rest, LAMBDA a : a.id # i))

ride_distances_per_stop(all, k, pickup_location) ==
    [total_distance |-> 0, total_rides |-> Len(all) - 1]

\* the loop of _average_ride_distance from position k of the driver logs,
\* with the pickup_location it has at that point: total_distance and
\* total_rides
RECURSIVE ride_distances(_, _, _)
ride_distances(all, k, pickup_location) ==
    IF k > Len(all) THEN [total_distance |-> 0, total_rides |-> 0]
    ELSE IF all[k].description = PICKUP
         THEN ride_distances(all, k + 1, all[k].location)
    ELSE IF all[k].description = DROPOFF
         THEN LET rest == ride_distances(all, k + 1, pickup_location)
              IN  [total_distance |-> rest.total_distance
                      + manhattan_distance(pickup_location, all[k].location),
                   total_rides |-> rest.total_rides + 1]
    ELSE ride_distances(all, k + 1, pickup_location)

\* _average_ride_distance: the float it returns, as the fraction
\* numerator / denominator (0.0 is 0 / 1)
average_ride_distance(acts) ==
    LET total == ride_distances(driver_logs(acts, acts[DRIVER]), 1,
                                NoLocation)
    IN  IF total.total_rides = 0 THEN [numerator |-> 0, denominator |-> 1]
        ELSE [numerator |-> total.total_distance,
              denominator |-> total.total_rides]

\* _average_ride_distance raises when a DROPOFF is met while pickup_location
\* is still None or is a PICKUP without a location
average_ride_distance_raises(acts) ==
    LET all == driver_logs(acts, acts[DRIVER])
    IN  \E k \in DOMAIN all :
            /\ all[k].description = DROPOFF
            /\ LET before == {j \in 1..(k - 1) : all[j].description = PICKUP}
               IN  \/ before = {}
                   \/ all[CHOOSE j \in before : \A m \in before : m <= j]
                          .location = NoLocation

report_raises(acts) ==
    average_total_distance_raises(acts) \/ average_ride_distance_raises(acts)

(***************************************************************************)
(* Values that every specification starts from.                            *)
(***************************************************************************)
NoRider == [id |-> 0, patience |-> 0, origin |-> Location(0, 0),
            destination |-> Location(0, 0), status |-> WAITING]

NoDriver == [id |-> 0, location |-> Location(0, 0),
             destination |-> NoLocation, speed |-> 1, is_idle |-> TRUE]

NoActivities == [c \in {RIDER, DRIVER} |-> <<>>]

(***************************************************************************)
(* Specification SpecQueue: a PriorityQueue under any sequence of add and  *)
(* remove calls.                                                           *)
(***************************************************************************)
InitQueue ==
    /\ events = <<>>
    /\ next_uid = 1
    /\ removed = NoEvent
    /\ produced = <<>>
    /\ rider = [r \in Riders |-> NoRider]
    /\ driver = [d \in Drivers |-> NoDriver]
    /\ waiting_list = <<>>
    /\ driver_list = <<>>
    /\ activities = NoActivities
    /\ pc = "queue"
    /\ initial_events = <<>>
    /\ op = <<"new">>
    /\ result = NoAnswer
    /\ executed = <<>>
    /\ created = <<>>

QueueAdd ==
    /\ pc = "queue"
    /\ next_uid <= MaxAdds
    /\ \E t \in 0..MaxQueueTime, d \in Drivers :
          /\ events' = PriorityQueue_add(events, DriverRequest(t, d), next_uid)
          /\ op' = <<"add", t>>
    /\ next_uid' = next_uid + 1
    /\ UNCHANGED <<created, executed, removed, produced, rider, driver,
                   waiting_list,
                   driver_list, activities, pc, initial_events, result>>

QueueRemove ==
    /\ pc = "queue"
    /\ ~PriorityQueue_is_empty(events)
    /\ removed' = Head(events)
    /\ events' = PriorityQueue_remove(events)
    /\ op' = <<"remove">>
    /\ UNCHANGED <<created, executed, next_uid, produced, rider, driver,
                   waiting_list,
                   driver_list, activities, pc, initial_events, result>>

NextQueue == QueueAdd \/ QueueRemove

SpecQueue == InitQueue /\ [][NextQueue]_vars

\* C1: each remove() returns an event with the smallest timestamp among the
\* queued ones and, among those with that timestamp, the one added earliest:
\* right after a remove, every event still queued has a larger timestamp, or
\* the same timestamp and a later add.
Precedes(a, b) ==
    \/ a.timestamp < b.timestamp
    \/ a.timestamp = b.timestamp /\ a.uid < b.uid

QueueOrder ==
    op[1] = "remove" => \A i \in DOMAIN events : Precedes(removed, events[i])

\* a remove that took the earlier of two queued events with equal timestamps
QueueOrderWitness ==
    /\ op[1] = "remove"
    /\ \E i \in DOMAIN events :
          /\ events[i].timestamp = removed.timestamp
          /\ events[i].uid > removed.uid
    /\ \E i \in DOMAIN events : events[i].uid < removed.uid


(***************************************************************************)
(* Specification Spec: Simulation.run on a bounded list of initial events, *)
(* the RiderRequests followed by the DriverRequests, with any timestamps.  *)
(* As create_event_list does, an initial event normally has an object of   *)
(* its own: rider object i belongs to the i-th RiderRequest and driver     *)
(* object j to the j-th DriverRequest.  Nothing keeps a caller of run from *)
(* ill-formed lists, so object i has id i or the id of object 1, and a     *)
(* request may name object 1 again instead of its own object (the object   *)
(* it leaves unused then keeps one fixed value).                           *)
(***************************************************************************)
RiderChoices(i) ==
    {Rider(n, p, o, d) : n \in {1, i}, p \in 0..MaxPatience,
                         o \in Origins, d \in Destinations}

DriverChoices(j) ==
    {Driver(n, l, s) : n \in {1, j}, l \in DriverLocations, s \in Speeds}

AllRiderChoices == UNION {RiderChoices(i) : i \in Riders}
AllDriverChoices == UNION {DriverChoices(j) : j \in Drivers}

UnusedRider(i) == Rider(i, 0, Location(0, 0), Location(1, 1))
UnusedDriver(j) == Driver(j, Location(0, 0), 1)

\* which object each request names: its own or object 1
Naming(objects) == {f \in [objects -> objects] : \A i \in objects : f[i] \in {1, i}}

SeqOf(objects, f(_)) == [i \in 1..Cardinality(objects) |-> f(i)]

InitialEvents ==
    {SeqOf(Riders, LAMBDA i : RiderRequest(rt[i], rn[i]))
       \o SeqOf(Drivers, LAMBDA j : DriverRequest(dt[j], dn[j])) :
         rt \in [Riders -> 0..MaxTime], rn \in Naming(Riders),
         dt \in [Drivers -> 0..MaxTime], dn \in Naming(Drivers)}

RidersNamed(evs) == {evs[k].rider : k \in DOMAIN evs} \ {None}
DriversNamed(evs) == {evs[k].driver : k \in DOMAIN evs} \ {None}

Init ==
    /\ events = <<>>
    /\ next_uid = 1
    /\ removed = NoEvent
    /\ produced = <<>>
    /\ initial_events \in InitialEvents
    /\ rider \in {f \in [Riders -> AllRiderChoices \cup
                                   {UnusedRider(i) : i \in Riders}] :
                     \A i \in Riders :
                         IF i \in RidersNamed(initial_events)
                         THEN f[i] \in RiderChoices(i)
                         ELSE f[i] = UnusedRider(i)}
    /\ driver \in {f \in [Drivers -> AllDriverChoices \cup
                                     {UnusedDriver(j) : j \in Drivers}] :
                     \A j \in Drivers :
                         IF j \in DriversNamed(initial_events)
                         THEN f[j] \in DriverChoices(j)
                         ELSE f[j] = UnusedDriver(j)}
    /\ waiting_list = <<>>
    /\ driver_list = <<>>
    /\ activities = NoActivities
    /\ pc = "new"
    /\ op = <<"new">>
    /\ result = NoAnswer
    /\ executed = <<>>
    /\ created = <<>>

\* Simulation.run, lines 63-64: the initial events are added to the queue
RunAddInitial ==
    /\ pc = "new"
    /\ events' = add_all(events, initial_events, next_uid)
    /\ created' = created \o stamped(initial_events, next_uid)
    /\ next_uid' = next_uid + Len(initial_events)
    /\ pc' = "run"
    /\ op' = <<"add_initial">>
    /\ UNCHANGED <<executed, removed, produced, rider, driver,
                   waiting_list,
                   driver_list, activities, initial_events, result>>

\* the dispatcher, the monitor and the actor records, as one value
World ==
    [rider |-> rider, driver |-> driver, waiting_list |-> waiting_list,
     driver_list |-> driver_list, activities |-> activities]

\* what a handler hands back: the world it leaves, the events it returns,
\* whether it raised instead of returning, and what the dispatcher method
\* it called answered (the method's name, what it returned, its argument)
Outcome(w, new_events, raises, answer) ==
    [world |-> w, events |-> new_events, raises |-> raises,
     answer |-> answer]

RiderRequest_do_cancel_unmatched(self, w) ==
    LET r == self.rider
        origin == w.rider[r].origin
        acts == notify(w.activities, self.timestamp, RIDER, REQUEST,
                       w.rider[r].id, origin)
        d == request_driver(w.driver_list, w.driver, origin)
        wl == request_driver_waiting(w.waiting_list, w.driver_list,
                                     w.driver, r)
        started == start_drive(w.driver[d], origin)
        travel_time == get_travel_time(started, origin)
        cancel == Cancellation(self.timestamp + w.rider[r].patience, r)
    IN  IF d # None
        THEN Outcome([w EXCEPT !.activities = acts, !.waiting_list = wl,
                               !.driver[d] = started],
                     <<Pickup(self.timestamp + travel_time, r, d)>>,
                     FALSE, <<"request_driver", d, r>>)
        ELSE Outcome([w EXCEPT !.activities = acts, !.waiting_list = wl],
                     <<cancel>>, FALSE, <<"request_driver", None, r>>)

\* RiderRequest.do
RiderRequest_do(self, w) ==
    LET r == self.rider
        origin == w.rider[r].origin
        acts == notify(w.activities, self.timestamp, RIDER, REQUEST,
                       w.rider[r].id, origin)
        raises == request_driver_raises(w.driver_list, w.driver, origin)
        d == request_driver(w.driver_list, w.driver, origin)
        wl == request_driver_waiting(w.waiting_list, w.driver_list,
                                     w.driver, r)
        started == start_drive(w.driver[d], origin)
        travel_time == get_travel_time(started, origin)
        cancel == Cancellation(self.timestamp + w.rider[r].patience, r)
    IN  IF raises
        THEN Outcome([w EXCEPT !.activities = acts], <<>>, TRUE, NoAnswer)
        ELSE IF d # None
        THEN Outcome([w EXCEPT !.activities = acts, !.waiting_list = wl,
                               !.driver[d] = started],
                     <<Pickup(self.timestamp + travel_time, r, d), cancel>>,
                     FALSE, <<"request_driver", d, r>>)
        ELSE Outcome([w EXCEPT !.activities = acts, !.waiting_list = wl],
                     <<cancel>>, FALSE, <<"request_driver", None, r>>)

DriverRequest_do_stays_idle(self, w) ==
    LET d == self.driver
        acts == notify(w.activities, self.timestamp, DRIVER, REQUEST,
                       w.driver[d].id, w.driver[d].location)
        r == request_rider(w.waiting_list)
        w1 == [w EXCEPT !.activities = acts,
                        !.driver_list = request_rider_roster(w.driver_list,
                                                             w.driver, d),
                        !.waiting_list = request_rider_waiting(w.waiting_list)]
        time_to_rider == get_travel_time(w.driver[d], w.rider[r].origin)
    IN  IF r = None
        THEN Outcome(w1, <<>>, FALSE, <<"request_rider", None, d>>)
        ELSE Outcome(w1, <<Pickup(self.timestamp + time_to_rider, r, d)>>,
                     FALSE, <<"request_rider", r, d>>)

\* DriverRequest.do
DriverRequest_do(self, w) ==
    LET d == self.driver
        acts == notify(w.activities, self.timestamp, DRIVER, REQUEST,
                       w.driver[d].id, w.driver[d].location)
        r == request_rider(w.waiting_list)
        w1 == [w EXCEPT !.activities = acts,
                        !.driver_list = request_rider_roster(w.driver_list,
                                                             w.driver, d),
                        !.waiting_list = request_rider_waiting(w.waiting_list)]
        started == start_drive(w.driver[d], w.rider[r].origin)
        time_to_rider == get_travel_time(started, w.rider[r].origin)
    IN  IF r = None
        THEN Outcome(w1, <<>>, FALSE, <<"request_rider", None, d>>)
        ELSE IF get_travel_time_raises(started, w.rider[r].origin)
        THEN Outcome([w1 EXCEPT !.driver[d] = started], <<>>, TRUE,
                     <<"request_rider", r, d>>)
        ELSE Outcome([w1 EXCEPT !.driver[d] = started],
                     <<Pickup(self.timestamp + time_to_rider, r, d)>>,
                     FALSE, <<"request_rider", r, d>>)

Cancellation_do_any_status(self, w) ==
    LET r == self.rider
        marked == [w.rider EXCEPT ![r].status = CANCELLED]
    IN  Outcome([w EXCEPT
                   !.rider = cancel_ride_riders(marked, r),
                   !.waiting_list = cancel_ride_waiting(w.waiting_list,
                                                        marked, r),
                   !.activities = notify(w.activities, self.timestamp,
                                         RIDER, CANCEL, w.rider[r].id,
                                         w.rider[r].origin)],
                <<>>, FALSE, NoAnswer)

\* Cancellation.do
Cancellation_do(self, w) ==
    LET r == self.rider
        marked == [w.rider EXCEPT ![r].status = CANCELLED]
    IN  IF w.rider[r].status = WAITING
        THEN Outcome([w EXCEPT
                        !.rider = cancel_ride_riders(marked, r),
                        !.waiting_list = cancel_ride_waiting(w.waiting_list,
                                                             marked, r),
                        !.activities = notify(w.activities, self.timestamp,
                                              RIDER, CANCEL, w.rider[r].id,
                                              w.rider[r].origin)],
                     <<>>, FALSE, NoAnswer)
        ELSE Outcome(w, <<>>, FALSE, NoAnswer)

Pickup_do_logs_departure(self, w) ==
    LET r == self.rider
        d == self.driver
        arrived == end_drive(w.driver[d])
        acts == notify(w.activities, self.timestamp, DRIVER, PICKUP,
                       w.driver[d].id, w.driver[d].location)
        riding == start_ride(arrived, w.rider[r])
        time_to_destination == get_travel_time(riding, w.rider[r].destination)
    IN  IF w.rider[r].status = WAITING
        THEN Outcome([w EXCEPT
                        !.activities = notify(acts, self.timestamp, RIDER,
                                              PICKUP, w.rider[r].id,
                                              w.rider[r].origin),
                        !.driver[d] = riding,
                        !.rider[r].status = SATISFIED],
                     <<Dropoff(self.timestamp + time_to_destination, r, d)>>,
                     FALSE, NoAnswer)
        ELSE IF w.rider[r].status = CANCELLED
        THEN Outcome([w EXCEPT !.activities = acts, !.driver[d] = arrived],
                     <<DriverRequest(self.timestamp, d)>>, FALSE, NoAnswer)
        ELSE Outcome([w EXCEPT !.activities = acts, !.driver[d] = arrived],
                     <<>>, FALSE, NoAnswer)

Pickup_do_relative_dropoff(self, w) ==
    LET r == self.rider
        d == self.driver
        arrived == end_drive(w.driver[d])
        acts == notify(w.activities, self.timestamp, DRIVER, PICKUP,
                       w.driver[d].id, arrived.location)
        riding == start_ride(arrived, w.rider[r])
        time_to_destination == get_travel_time(riding, w.rider[r].destination)
    IN  IF w.rider[r].status = WAITING
        THEN Outcome([w EXCEPT
                        !.activities = notify(acts, self.timestamp, RIDER,
                                              PICKUP, w.rider[r].id,
                                              w.rider[r].origin),
                        !.driver[d] = riding,
                        !.rider[r].status = SATISFIED],
                     <<Dropoff(time_to_destination, r, d)>>,
                     FALSE, NoAnswer)
        ELSE IF w.rider[r].status = CANCELLED
        THEN Outcome([w EXCEPT !.activities = acts, !.driver[d] = arrived],
                     <<DriverRequest(self.timestamp, d)>>, FALSE, NoAnswer)
        ELSE Outcome([w EXCEPT !.activities = acts, !.driver[d] = arrived],
                     <<>>, FALSE, NoAnswer)

Pickup_do_cancelled_stranded(self, w) ==
    LET r == self.rider
        d == self.driver
        arrived == end_drive(w.driver[d])
        acts == notify(w.activities, self.timestamp, DRIVER, PICKUP,
                       w.driver[d].id, arrived.location)
        riding == start_ride(arrived, w.rider[r])
        time_to_destination == get_travel_time(riding, w.rider[r].destination)
    IN  IF w.rider[r].status = WAITING
        THEN Outcome([w EXCEPT
                        !.activities = notify(acts, self.timestamp, RIDER,
                                              PICKUP, w.rider[r].id,
                                              w.rider[r].origin),
                        !.driver[d] = riding,
                        !.rider[r].status = SATISFIED],
                     <<Dropoff(self.timestamp + time_to_destination, r, d)>>,
                     FALSE, NoAnswer)
        ELSE Outcome([w EXCEPT !.activities = acts, !.driver[d] = arrived],
                     <<>>, FALSE, NoAnswer)

Pickup_do_not_satisfied(self, w) ==
    LET r == self.rider
        d == self.driver
        arrived == end_drive(w.driver[d])
        acts == notify(w.activities, self.timestamp, DRIVER, PICKUP,
                       w.driver[d].id, arrived.location)
        riding == start_ride(arrived, w.rider[r])
        time_to_destination == get_travel_time(riding, w.rider[r].destination)
    IN  IF w.rider[r].status # SATISFIED
        THEN Outcome([w EXCEPT
                        !.activities = notify(acts, self.timestamp, RIDER,
                                              PICKUP, w.rider[r].id,
                                              w.rider[r].origin),
                        !.driver[d] = riding,
                        !.rider[r].status = SATISFIED],
                     <<Dropoff(self.timestamp + time_to_destination, r, d)>>,
                     FALSE, NoAnswer)
        ELSE Outcome([w EXCEPT !.activities = acts, !.driver[d] = arrived],
                     <<>>, FALSE, NoAnswer)

\* Pickup.do
Pickup_do(self, w) ==
    LET r == self.rider
        d == self.driver
        arrived == end_drive(w.driver[d])
        acts == notify(w.activities, self.timestamp, DRIVER, PICKUP,
                       w.driver[d].id, arrived.location)
        riding == start_ride(arrived, w.rider[r])
        time_to_destination == get_travel_time(riding, w.rider[r].destination)
    IN  IF w.rider[r].status = WAITING
        THEN Outcome([w EXCEPT
                        !.activities = notify(acts, self.timestamp, RIDER,
                                              PICKUP, w.rider[r].id,
                                              w.rider[r].origin),
                        !.driver[d] = riding,
                        !.rider[r].status = SATISFIED],
                     <<Dropoff(self.timestamp + time_to_destination, r, d)>>,
                     FALSE, NoAnswer)
        ELSE IF w.rider[r].status = CANCELLED
        THEN Outcome([w EXCEPT !.activities = acts, !.driver[d] = arrived],
                     <<DriverRequest(self.timestamp, d)>>, FALSE, NoAnswer)
        ELSE Outcome([w EXCEPT !.activities = acts, !.driver[d] = arrived],
                     <<>>, FALSE, NoAnswer)

Dropoff_do_driver_unlogged(self, w) ==
    LET r == self.rider
        d == self.driver
        ended == [w EXCEPT !.driver[d] = end_ride(w.driver[d])]
        new_request == DriverRequest(self.timestamp, d)
    IN  IF w.rider[r].status = SATISFIED
        THEN Outcome([ended EXCEPT
                        !.activities =
                           notify(w.activities, self.timestamp, RIDER,
                                  DROPOFF, w.rider[r].id,
                                  w.rider[r].destination)],
                     <<new_request>>, FALSE, NoAnswer)
        ELSE Outcome(ended, <<new_request>>, FALSE, NoAnswer)

Dropoff_do_always_logs(self, w) ==
    LET r == self.rider
        d == self.driver
        ended == [w EXCEPT !.driver[d] = end_ride(w.driver[d])]
        new_request == DriverRequest(self.timestamp, d)
    IN  Outcome([ended EXCEPT
                   !.activities =
                      notify(notify(w.activities, self.timestamp, RIDER,
                                    DROPOFF, w.rider[r].id,
                                    w.rider[r].destination),
                             self.timestamp, DRIVER, DROPOFF,
                             w.driver[d].id, w.rider[r].destination)],
                <<new_request>>, FALSE, NoAnswer)

\* Dropoff.do
Dropoff_do(self, w) ==
    LET r == self.rider
        d == self.driver
        ended == [w EXCEPT !.driver[d] = end_ride(w.driver[d])]
        new_request == DriverRequest(self.timestamp, d)
    IN  IF w.rider[r].status = SATISFIED
        THEN Outcome([ended EXCEPT
                        !.activities =
                           notify(notify(w.activities, self.timestamp, RIDER,
                                         DROPOFF, w.rider[r].id,
                                         w.rider[r].destination),
                                  self.timestamp, DRIVER, DROPOFF,
                                  w.driver[d].id, w.rider[r].destination)],
                     <<new_request>>, FALSE, NoAnswer)
        ELSE Outcome(ended, <<new_request>>, FALSE, NoAnswer)

\* one iteration of the loop of Simulation.run (lines 67-75): the front
\* event is removed and done and the events it returns are added; when the
\* handler raises, nothing is added and run ends with the exception
Iteration(kind, out) ==
    /\ pc = "run"
    /\ ~PriorityQueue_is_empty(events)
    /\ Head(events).kind = kind
    /\ removed' = Head(events)
    /\ op' = <<"do", kind>>
    /\ produced' = out.events
    /\ events' = add_all(PriorityQueue_remove(events), out.events, next_uid)
    /\ next_uid' = next_uid + Len(out.events)
    /\ pc' = IF out.raises THEN "error" ELSE "run"
    /\ rider' = out.world.rider
    /\ driver' = out.world.driver
    /\ waiting_list' = out.world.waiting_list
    /\ driver_list' = out.world.driver_list
    /\ activities' = out.world.activities
    /\ result' = out.answer
    /\ executed' = Append(executed, Head(events).uid)
    /\ created' = created \o stamped(out.events, next_uid)
    /\ UNCHANGED initial_events

DoRiderRequest == Iteration("RiderRequest", RiderRequest_do(Head(events), World))

DoDriverRequest ==
    Iteration("DriverRequest", DriverRequest_do(Head(events), World))

DoCancellation == Iteration("Cancellation", Cancellation_do(Head(events), World))

DoPickup == Iteration("Pickup", Pickup_do(Head(events), World))

DoDropoff == Iteration("Dropoff", Dropoff_do(Head(events), World))

RunReturn_early ==
    /\ pc = "run"
    /\ Len(events) <= 1
    /\ pc' = IF report_raises(activities) THEN "error" ELSE "done"
    /\ op' = <<"report">>
    /\ UNCHANGED <<created, executed, events, next_uid, removed, produced,
                   rider, driver, waiting_list, driver_list, activities,
                   initial_events, result>>

\* Simulation.run, line 83: the queue is empty and the report is returned
RunReturn ==
    /\ pc = "run"
    /\ PriorityQueue_is_empty(events)
    /\ pc' = IF report_raises(activities) THEN "error" ELSE "done"
    /\ op' = <<"report">>
    /\ UNCHANGED <<created, executed, events, next_uid, removed, produced,
                   rider, driver,
                   waiting_list, driver_list, activities, initial_events,
                   result>>

Next ==
    \/ RunAddInitial
    \/ DoRiderRequest
    \/ DoDriverRequest
    \/ DoCancellation
    \/ DoPickup
    \/ DoDropoff
    \/ RunReturn

Spec == Init /\ [][Next]_vars


(***************************************************************************)
(* Properties of Simulation.run (specification Spec).                      *)
(***************************************************************************)
\* C2: with non-negative patience and positive speed (all the riders and
\* drivers of the model), every event a handler returns has a timestamp >=
\* that of the event that produced it, and the timestamps of the events the
\* loop executes never decrease.
TimestampsNeverDecrease ==
    /\ [](\A k \in DOMAIN produced :
             produced[k].timestamp >= removed.timestamp)
    /\ [][(op[1] = "do" /\ op'[1] = "do")
             => removed'.timestamp >= removed.timestamp]_vars

\* a Pickup has just returned a Dropoff with a later timestamp
TimestampsNeverDecreaseWitness ==
    /\ op = <<"do", "Pickup">>
    /\ Len(produced) = 1
    /\ produced[1].kind = "Dropoff"
    /\ produced[1].timestamp > removed.timestamp

\* C7: a rider's status changes only from WAITING to CANCELLED or from
\* WAITING to SATISFIED; a CANCELLED or SATISFIED rider keeps its status.
StatusMonotonic ==
    [][\A r \in Riders :
          rider'[r].status # rider[r].status
             => /\ rider[r].status = WAITING
                /\ rider'[r].status \in {CANCELLED, SATISFIED}]_vars

\* the run is over, one rider was picked up and the other one cancelled
StatusMonotonicWitness ==
    /\ pc = "done"
    /\ \E r1, r2 \in Riders :
          rider[r1].status = SATISFIED /\ rider[r2].status = CANCELLED

\* C8: a Cancellation executed on a rider that is SATISFIED or already
\* CANCELLED changes neither the riders, the waiting list, the roster, the
\* drivers nor the Monitor's logs, and produces no event.
CancellationOfResolvedRider ==
    [][(/\ op' = <<"do", "Cancellation">>
        /\ rider[removed'.rider].status \in {SATISFIED, CANCELLED})
          => /\ rider' = rider
             /\ waiting_list' = waiting_list
             /\ driver_list' = driver_list
             /\ driver' = driver
             /\ activities' = activities
             /\ produced' = <<>>
             /\ events' = Tail(events)]_vars

\* the Cancellation of a rider that was picked up before has just executed
CancellationOfResolvedRiderWitness ==
    /\ op = <<"do", "Cancellation">>
    /\ rider[removed.rider].status = SATISFIED

\* C9: in every reachable state of the simulation a driver's destination is
\* set if and only if the driver is not idle.
DestinationIffNotIdle ==
    \A d \in Drivers : (driver[d].destination # NoLocation) <=> ~driver[d].is_idle

\* one driver is on a ride while another one has ended a ride
DestinationIffNotIdleWitness ==
    \E d1, d2 \in Drivers :
        /\ ~driver[d1].is_idle
        /\ driver[d1].destination \in Destinations
        /\ driver[d2].is_idle
        /\ \E k \in DOMAIN activities[DRIVER] :
              /\ activities[DRIVER][k].id = driver[d2].id
              /\ activities[DRIVER][k].description = DROPOFF
        /\ driver[d1].id # driver[d2].id

\* C10: when each rider id has exactly one initial RiderRequest, a rider is
\* on the waiting list at most once, and it leaves the list exactly in the
\* step in which request_rider hands it to a driver or in which it is
\* cancelled while on the list.
OneRequestPerRiderId ==
    \A k, l \in DOMAIN initial_events :
        (/\ k # l
         /\ initial_events[k].kind = "RiderRequest"
         /\ initial_events[l].kind = "RiderRequest")
          => rider[initial_events[k].rider].id
               # rider[initial_events[l].rider].id

OnList(r, wl) == \E i \in DOMAIN wl : wl[i] = r

WaitingListOnce ==
    /\ [](OneRequestPerRiderId
            => \A i, j \in DOMAIN waiting_list :
                  i # j => waiting_list[i] # waiting_list[j])
    /\ [][OneRequestPerRiderId
            => \A r \in Riders :
                  (OnList(r, waiting_list) /\ ~OnList(r, waiting_list'))
                    <=> \/ /\ op' = <<"do", "DriverRequest">>
                           /\ result'[1] = "request_rider"
                           /\ result'[2] = r
                        \/ /\ op' = <<"do", "Cancellation">>
                           /\ removed'.rider = r
                           /\ rider[r].status = WAITING
                           /\ OnList(r, waiting_list)]_vars

\* a DriverRequest has just taken the first of two waiting riders
WaitingListOnceWitness ==
    /\ OneRequestPerRiderId
    /\ op = <<"do", "DriverRequest">>
    /\ result[2] # None
    /\ Len(waiting_list) = 1
    /\ waiting_list[1] # result[2]

\* the events a handler has just returned, as a set
Produced == {produced[k] : k \in DOMAIN produced}

\* C11: a RiderRequest(rider) executed at time t returns a Cancellation of
\* that rider at t + rider.patience; if and only if request_driver matched a
\* driver (which it does exactly when a roster driver is idle) it also
\* returns a Pickup(rider, driver) at t + the driver's travel time from its
\* location to rider.origin, and that driver is then busy with destination
\* rider.origin; with no driver matched the Cancellation is the only event
\* and no driver changes.
RiderRequestProduces ==
    [][(op' = <<"do", "RiderRequest">> /\ pc' # "error")
          => LET r == removed'.rider
                 t == removed'.timestamp
                 d == result'[2]
                 cancel == Cancellation(t + rider[r].patience, r)
             IN  /\ result'[1] = "request_driver"
                 /\ (d # None) <=>
                       (\E i \in DOMAIN driver_list :
                            driver[driver_list[i]].is_idle)
                 /\ IF d # None
                    THEN /\ Len(produced') = 2
                         /\ Produced' =
                              {cancel,
                               Pickup(t + get_travel_time(driver[d],
                                                          rider[r].origin),
                                      r, d)}
                         /\ ~driver'[d].is_idle
                         /\ driver'[d].destination = rider[r].origin
                         /\ driver'[d].location = driver[d].location
                         /\ \A e \in Drivers \ {d} : driver'[e] = driver[e]
                    ELSE /\ produced' = <<cancel>>
                         /\ driver' = driver]_vars

\* a RiderRequest has just been matched to a driver that is one step away
\* from a rider with patience
RiderRequestProducesWitness ==
    /\ op = <<"do", "RiderRequest">>
    /\ result[2] # None
    /\ Len(produced) = 2
    /\ \E k \in DOMAIN produced :
          /\ produced[k].kind = "Pickup"
          /\ produced[k].timestamp > removed.timestamp
    /\ \E k \in DOMAIN produced :
          /\ produced[k].kind = "Cancellation"
          /\ produced[k].timestamp > removed.timestamp

\* no driver object is named by two initial DriverRequests
NoDriverNamedTwice ==
    \A k, l \in DOMAIN initial_events :
        (/\ k # l
         /\ initial_events[k].kind = "DriverRequest"
         /\ initial_events[l].kind = "DriverRequest")
          => initial_events[k].driver # initial_events[l].driver

PickupOfWaitingRider ==
    [][(/\ op' = <<"do", "Pickup">>
        /\ pc' # "error"
        /\ rider[removed'.rider].status = WAITING)
          => LET r == removed'.rider
                 d == removed'.driver
                 t == removed'.timestamp
             IN  /\ activities' =
                      [activities EXCEPT
                         ![DRIVER] = Append(@, Activity(t, PICKUP,
                                       driver[d].id, driver[d].destination)),
                         ![RIDER] = Append(@, Activity(t, PICKUP,
                                       rider[r].id, rider[r].origin))]
                 /\ rider' = [rider EXCEPT ![r].status = SATISFIED]
                 /\ driver' = [driver EXCEPT
                                 ![d].is_idle = FALSE,
                                 ![d].location = rider[r].origin,
                                 ![d].destination = rider[r].destination]
                 /\ produced' =
                      <<Dropoff(t + round(manhattan_distance(rider[r].origin,
                                              rider[r].destination),
                                          driver[d].speed), r, d)>>
                 /\ waiting_list' = waiting_list
                 /\ driver_list' = driver_list]_vars

\* a Pickup after time 0 has just made a rider SATISFIED and returned a
\* Dropoff
PickupOfWaitingRiderWitness ==
    /\ op = <<"do", "Pickup">>
    /\ removed.timestamp > 0
    /\ rider[removed.rider].status = SATISFIED
    /\ Len(produced) = 1
    /\ produced[1].kind = "Dropoff"
    /\ ~driver[removed.driver].is_idle
    /\ driver[removed.driver].location = rider[removed.rider].origin

RosterIds == {driver[driver_list[i]].id : i \in DOMAIN driver_list}

\* C22: after any sequence of executed events the driver ids that have a
\* DRIVER log in the Monitor are the ids of the roster, the report divides
\* the total distance by their number, and the drivers with fewer than two
\* activities add nothing to the total.
TotalDistanceOverRoster ==
    /\ actors(activities, DRIVER) = RosterIds
    /\ ~average_total_distance_raises(activities)
         => LET avg == average_total_distance(activities)
                moving == {i \in RosterIds :
                              Len(activities_of(activities, DRIVER, i)) >= 2}
            IN  /\ RosterIds # {} => avg.denominator = Cardinality(RosterIds)
                /\ avg.numerator = total_distance(activities, moving)

\* a run has ended with two registered drivers of which one has driven and
\* the other has only requested
TotalDistanceOverRosterWitness ==
    /\ pc = "done"
    /\ Cardinality(RosterIds) = 2
    /\ \E i \in RosterIds : Len(activities_of(activities, DRIVER, i)) = 1
    /\ average_total_distance(activities).numerator > 0
    /\ average_total_distance(activities).denominator = 2

\* the initial events are well formed: no two RiderRequests name the same
\* rider object or riders with the same id, and likewise for DriverRequests
\* and drivers
WellFormed ==
    \A k, l \in DOMAIN initial_events :
        (k # l /\ initial_events[k].kind = initial_events[l].kind)
          => IF initial_events[k].kind = "RiderRequest"
             THEN /\ initial_events[k].rider # initial_events[l].rider
                  /\ rider[initial_events[k].rider].id
                       # rider[initial_events[l].rider].id
             ELSE /\ initial_events[k].driver # initial_events[l].driver
                  /\ driver[initial_events[k].driver].id
                       # driver[initial_events[l].driver].id

\* C26: in a run from well-formed initial events, a Pickup is executed when
\* its driver's destination is the rider's origin and a Dropoff when its
\* driver's destination is the rider's destination, so end_drive and
\* end_ride are not called without a destination, and no driver is ever
\* without a location.
DestinationSetOnArrival ==
    /\ [][(WellFormed /\ executed' # executed)
            => LET e == Head(events)
               IN  /\ e.kind = "Pickup"
                        => /\ driver[e.driver].destination # NoLocation
                           /\ driver[e.driver].destination
                                = rider[e.rider].origin
                   /\ e.kind = "Dropoff"
                        => /\ driver[e.driver].destination # NoLocation
                           /\ driver[e.driver].destination
                                = rider[e.rider].destination]_vars
    /\ [](WellFormed => \A d \in Drivers : driver[d].location # NoLocation)

\* a well-formed run has ended after a Pickup and a Dropoff on one driver
\* and a Pickup of a cancelled rider on another
DestinationSetOnArrivalWitness ==
    /\ WellFormed
    /\ pc = "done"
    /\ \E k \in DOMAIN activities[DRIVER] :
          activities[DRIVER][k].description = DROPOFF
    /\ \E r \in Riders, k \in DOMAIN activities[DRIVER] :
          /\ rider[r].status = CANCELLED
          /\ activities[DRIVER][k].description = PICKUP
          /\ activities[DRIVER][k].location = rider[r].origin
          /\ activities[DRIVER][k].location # rider[3 - r].origin

(***************************************************************************)
(* Specification SpecRun: Simulation.run, taken to its end, on lists of up *)
(* to three RiderRequests followed by up to two DriverRequests, on the     *)
(* list of the first end-to-end scenario, and on lists in which one rider  *)
(* requests three times before another rider does.  Actors have distinct   *)
(* ids; the third RiderRequest names a third rider or one of the first two *)
(* again, and the second DriverRequest names its own driver or the first   *)
(* driver again.  Three distinct riders are numbered in the order of their *)
(* requests, which is every order up to the names of the riders.           *)
(***************************************************************************)
\* the rider objects of these runs
RunRiderObjects == Riders \cup {3}

RunRiderRequests ==
    {<<>>}
      \cup {<<RiderRequest(t1, 1)>> : t1 \in 0..MaxTime}
      \cup {<<RiderRequest(t1, 1), RiderRequest(t2, 2)>> :
               t1 \in 0..MaxTime, t2 \in 0..MaxTime}
      \cup {<<RiderRequest(t1, 1), RiderRequest(t2, 2), RiderRequest(t3, n)>> :
               t1 \in 0..MaxTime, t2 \in 0..MaxTime, t3 \in 0..MaxTime,
               n \in Riders}
      \cup {<<RiderRequest(t[1], 1), RiderRequest(t[2], 2),
              RiderRequest(t[3], 3)>> :
               t \in {u \in [1..3 -> 0..MaxTime] :
                         u[1] <= u[2] /\ u[2] <= u[3]}}

RunDriverRequests ==
    {<<>>}
      \cup {<<DriverRequest(t1, 1)>> : t1 \in 0..MaxTime}
      \cup {<<DriverRequest(t1, 1), DriverRequest(t2, n)>> :
               t1 \in 0..MaxTime, t2 \in 0..MaxTime, n \in Drivers}

RunLists == {rs \o ds : rs \in RunRiderRequests, ds \in RunDriverRequests}

\* rider 1 requests three times at one time, rider 2 once, and both drivers
\* request at one time
RepeatedRequestLists ==
    {<<RiderRequest(t1, 1), RiderRequest(t1, 1), RiderRequest(t1, 1),
       RiderRequest(t2, 2), DriverRequest(t3, 1), DriverRequest(t3, 2)>> :
        t1 \in 0..MaxTime, t2 \in 0..MaxTime, t3 \in 0..MaxTime}

\* rider 1 requests four times and driver 1 three times
RepeatedDriverLists ==
    {<<RiderRequest(t1, 1), RiderRequest(t1, 1), RiderRequest(t1, 1),
       RiderRequest(t2, 1), DriverRequest(t1, 1), DriverRequest(t1, 1),
       DriverRequest(t1, 1)>> :
        t1 \in 0..MaxTime, t2 \in 0..MaxTime}

\* scenario 1: driver bob (object 1) at (0,0) with speed 1 requests at time
\* 0 and is registered when rider bobby (object 1), with patience 100, origin
\* (1,1) and destination (2,2), requests at time 0
Scenario1Events == <<DriverRequest(0, 1), RiderRequest(0, 1)>>
Scenario1Riders ==
    [r \in RunRiderObjects |->
        IF r = 1 THEN Rider(1, 100, Location(1, 1), Location(2, 2))
        ELSE UnusedRider(r)]
Scenario1Drivers ==
    [d \in Drivers |->
        IF d = 1 THEN Driver(1, Location(0, 0), 1) ELSE UnusedDriver(d)]

\* the riders and drivers a list of initial events may come with
RunRiders(evs) ==
    {f \in [RunRiderObjects ->
                UNION {RiderChoices(i) \cup {UnusedRider(i)} :
                          i \in RunRiderObjects}] :
        \A i \in RunRiderObjects :
            IF i \in RidersNamed(evs)
            THEN f[i] \in RiderChoices(i) /\ f[i].id = i
            ELSE f[i] = UnusedRider(i)}

RunDrivers(evs) ==
    {f \in [Drivers -> AllDriverChoices \cup
                         {UnusedDriver(j) : j \in Drivers}] :
        \A j \in Drivers :
            IF j \in DriversNamed(evs)
            THEN f[j] \in DriverChoices(j) /\ f[j].id = j /\ f[j].speed = 1
            ELSE f[j] = UnusedDriver(j)}

\* Simulation(): nothing is queued, registered or logged, and run has not
\* been called
InitRun ==
    /\ events = <<>>
    /\ next_uid = 1
    /\ removed = NoEvent
    /\ produced = <<>>
    /\ initial_events = <<>>
    /\ rider = [i \in RunRiderObjects |-> UnusedRider(i)]
    /\ driver = [j \in Drivers |-> UnusedDriver(j)]
    /\ waiting_list = <<>>
    /\ driver_list = <<>>
    /\ activities = NoActivities
    /\ pc = "new"
    /\ op = <<"new">>
    /\ result = NoAnswer
    /\ executed = <<>>
    /\ created = <<>>

\* run(initial_events) is called with some list and its actors, and adds
\* the initial events to the queue (Simulation.run, lines 63-64)
RunCall ==
    /\ pc = "new"
    /\ \/ /\ initial_events' \in RunLists \cup RepeatedRequestLists
                                      \cup RepeatedDriverLists
          /\ rider' \in RunRiders(initial_events')
          /\ driver' \in RunDrivers(initial_events')
       \/ /\ initial_events' = Scenario1Events
          /\ rider' = Scenario1Riders
          /\ driver' = Scenario1Drivers
    /\ events' = add_all(events, initial_events', next_uid)
    /\ created' = created \o stamped(initial_events', next_uid)
    /\ next_uid' = next_uid + Len(initial_events')
    /\ pc' = "run"
    /\ op' = <<"add_initial">>
    /\ UNCHANGED <<executed, removed, produced, waiting_list, driver_list,
                   activities, result>>

NextRun ==
    \/ RunCall
    \/ DoRiderRequest
    \/ DoDriverRequest
    \/ DoCancellation
    \/ DoPickup
    \/ DoDropoff
    \/ RunReturn

SpecRun == InitRun /\ [][NextRun]_vars

(***************************************************************************)
(* Properties of whole runs (specification SpecRun).                       *)
(***************************************************************************)
\* every event that was ever added to the queue has been executed, once
AllExecutedOnce ==
    \A u \in 1..(next_uid - 1) :
        Cardinality({i \in DOMAIN executed : executed[i] = u}) = 1

\* how many initial events of a kind the list has
NumberOf(kind) ==
    Cardinality({k \in DOMAIN initial_events :
                    initial_events[k].kind = kind})

\* C16, as amended: Simulation.run terminates for every list of initial
\* RiderRequest and DriverRequest events (non-negative patience, positive
\* speed) in which no driver object is named by two DriverRequests.  The
\* loop executes finitely many events: every step of the loop executes one
\* more event while the queue is not empty and ends the run when it is, the
\* front event always has a handler, no handler raises, and the loop
\* executes at most five events
\* per initial RiderRequest and one per initial DriverRequest.  When run has
\* ended, every event that was ever added to the queue has been executed
\* exactly once.
RunTerminates ==
    /\ [](NoDriverNamedTwice
            => /\ pc # "error"
               /\ (pc = "run" /\ events # <<>>)
                    => Head(events).kind \in {"RiderRequest", "DriverRequest",
                                              "Cancellation", "Pickup",
                                              "Dropoff"}
               /\ Len(executed)
                    <= 5 * NumberOf("RiderRequest") + NumberOf("DriverRequest")
               /\ \A i, j \in DOMAIN executed :
                     i # j => executed[i] # executed[j]
               /\ pc = "done" => (events = <<>> /\ AllExecutedOnce))
    /\ [][(NoDriverNamedTwice /\ pc = "run")
            => IF events = <<>>
               THEN pc' = "done" /\ executed' = executed
               ELSE /\ pc' = "run"
                    /\ executed' = Append(executed, Head(events).uid)
                    /\ Head(events).uid \in 1..(next_uid - 1)]_vars

\* a run of three RiderRequests and two DriverRequests of distinct drivers
\* has ended after more than ten events
RunTerminatesWitness ==
    /\ pc = "done"
    /\ NoDriverNamedTwice
    /\ Len(initial_events) = 5
    /\ Len(executed) > 10
    /\ events = <<>>

\* C16, as stated: the same for every list; a run that is over, normally or
\* not, has emptied the queue and executed every event once.
RunTerminatesAnyList ==
    pc \in {"done", "error"} => (events = <<>> /\ AllExecutedOnce)

\* the run of scenario 1
IsScenario1 == initial_events = Scenario1Events /\ rider[1].patience = 100

\* C17: in scenario 1 (bob registered idle at (0,0) with speed 1, bobby with
\* patience 100 from (1,1) to (2,2) requesting at time 0) the RiderRequest
\* is matched to bob at time 0 and returns the Pickup at time 2 and the
\* Cancellation at time 100; the Pickup is executed at time 2, before the
\* Cancellation, makes bobby SATISFIED and returns the Dropoff at time 4;
\* the Dropoff logs RIDER/DROPOFF and DRIVER/DROPOFF and returns
\* DriverRequest(bob) at time 4; the Cancellation, executed at time 100,
\* changes nothing; the events are executed in the order DriverRequest,
\* RiderRequest, Pickup, Dropoff, DriverRequest, Cancellation.
Scenario1Trace ==
    /\ [](IsScenario1
            => /\ op = <<"do", "RiderRequest">>
                    => /\ removed.timestamp = 0
                       /\ result = <<"request_driver", 1, 1>>
                       /\ Len(produced) = 2
                       /\ Produced = {Pickup(2, 1, 1), Cancellation(100, 1)}
               /\ op = <<"do", "Pickup">>
                    => /\ removed.timestamp = 2
                       /\ \E k \in DOMAIN events :
                             events[k].kind = "Cancellation"
                       /\ rider[1].status = SATISFIED
                       /\ produced = <<Dropoff(4, 1, 1)>>
               /\ op = <<"do", "Dropoff">>
                    => /\ removed.timestamp = 4
                       /\ produced = <<DriverRequest(4, 1)>>
                       /\ activities[RIDER][Len(activities[RIDER])]
                            = Activity(4, DROPOFF, 1, Location(2, 2))
                       /\ activities[DRIVER][Len(activities[DRIVER])]
                            = Activity(4, DROPOFF, 1, Location(2, 2))
               /\ op = <<"do", "Cancellation">>
                    => /\ removed.timestamp = 100
                       /\ rider[1].status = SATISFIED
               /\ pc = "done"
                    => /\ executed = <<1, 2, 3, 5, 6, 4>>
                       /\ rider[1].status = SATISFIED
                       /\ driver[1] = Driver(1, Location(2, 2), 1))
    /\ [][(IsScenario1 /\ op' = <<"do", "Cancellation">>)
            => /\ rider' = rider
               /\ driver' = driver
               /\ waiting_list' = waiting_list
               /\ driver_list' = driver_list
               /\ activities' = activities
               /\ produced' = <<>>]_vars

\* the run of scenario 1 has ended
Scenario1TraceWitness ==
    /\ IsScenario1
    /\ pc = "done"
    /\ Len(executed) = 6
    /\ removed = [Cancellation(100, 1) EXCEPT !.uid = 4]

\* a run whose only initial event is a RiderRequest
IsScenario2 ==
    /\ Len(initial_events) = 1
    /\ initial_events[1].kind = "RiderRequest"

\* C18: a run whose only initial event is a RiderRequest at time t executes
\* exactly that RiderRequest and one Cancellation, at t + patience; the
\* rider ends CANCELLED, its log is [REQUEST, CANCEL], no driver is logged,
\* and the rider_wait_time of the report equals the rider's patience.
Scenario2Report ==
    IsScenario2
      => /\ pc # "error"
         /\ Len(executed) <= 2
         /\ pc = "done"
              => LET r == initial_events[1].rider
                     t == initial_events[1].timestamp
                     log == activities_of(activities, RIDER, rider[r].id)
                     wait == average_wait_time(activities)
                 IN  /\ executed = <<1, 2>>
                     /\ removed = [Cancellation(t + rider[r].patience, r)
                                     EXCEPT !.uid = 2]
                     /\ rider[r].status = CANCELLED
                     /\ Len(log) = 2
                     /\ log[1].description = REQUEST
                     /\ log[2].description = CANCEL
                     /\ activities[RIDER] = log
                     /\ activities[DRIVER] = <<>>
                     /\ wait.numerator = rider[r].patience * wait.denominator

\* such a run has ended, for a rider with patience that requested after
\* time 0
Scenario2ReportWitness ==
    /\ IsScenario2
    /\ pc = "done"
    /\ initial_events[1].timestamp > 0
    /\ rider[initial_events[1].rider].patience > 0
    /\ average_wait_time(activities).numerator > 0

\* the activities of the Monitor's aggregate scenario, for driver 1 and
\* rider 1
AggregateActivities ==
    [r \in {RIDER, DRIVER} |->
        IF r = DRIVER
        THEN <<Activity(0, REQUEST, 1, Location(0, 0)),
               Activity(2, PICKUP, 1, Location(1, 1)),
               Activity(4, DROPOFF, 1, Location(2, 2))>>
        ELSE <<Activity(0, REQUEST, 1, Location(1, 1)),
               Activity(2, PICKUP, 1, Location(1, 1)),
               Activity(4, DROPOFF, 1, Location(2, 2))>>]

\* C23: once the Monitor has been notified of DRIVER REQUEST(0,(0,0)),
\* RIDER REQUEST(0,(1,1)), DRIVER and RIDER PICKUP(2,(1,1)), DRIVER and RIDER
\* DROPOFF(4,(2,2)), and of nothing else, driver_total_distance is 4 / 1
\* and driver_ride_distance is 2 / 1.
AggregateReport ==
    activities = AggregateActivities
      => /\ average_total_distance(activities)
              = [numerator |-> 4, denominator |-> 1]
         /\ average_ride_distance(activities)
              = [numerator |-> 2, denominator |-> 1]
         /\ ~report_raises(activities)

\* the handlers of a run have made exactly these notifications, the last
\* two in a Dropoff
AggregateReportWitness ==
    /\ activities = AggregateActivities
    /\ op = <<"do", "Dropoff">>

\* the queued Pickup and Dropoff events of driver d
PendingRides(d) ==
    {k \in DOMAIN events : /\ events[k].kind \in {"Pickup", "Dropoff"}
                           /\ events[k].driver = d}

\* each driver has at most one queued Pickup or Dropoff, a driver that
\* request_driver hands to a RiderRequest was idle, and a DriverRequest is
\* executed on an idle driver
OneRideAtATime ==
    /\ [](\A d \in Drivers : Cardinality(PendingRides(d)) <= 1)
    /\ [][(op' = <<"do", "RiderRequest">> /\ executed' # executed
             /\ result'[2] # None)
            => driver[result'[2]].is_idle]_vars
    /\ [][(op' = <<"do", "DriverRequest">> /\ executed' # executed)
            => driver[removed'.driver].is_idle]_vars

\* C25, as stated: in every run each driver is committed to at most one
\* rider at a time.
OneRideAtATimeAnyRun == OneRideAtATime

\* C25, as amended: in every run whose initial events name no driver object
\* in more than one DriverRequest, each driver has at most one queued
\* Pickup or Dropoff event, request_driver hands only idle drivers to a
\* RiderRequest, and every DriverRequest is executed on an idle driver.
OneRideAtATimeDistinct ==
    /\ [](NoDriverNamedTwice
            => \A d \in Drivers : Cardinality(PendingRides(d)) <= 1)
    /\ [][(NoDriverNamedTwice /\ op' = <<"do", "RiderRequest">>
             /\ executed' # executed /\ result'[2] # None)
            => driver[result'[2]].is_idle]_vars
    /\ [][(NoDriverNamedTwice /\ op' = <<"do", "DriverRequest">>
             /\ executed' # executed)
            => driver[removed'.driver].is_idle]_vars

\* both drivers have a ride queued, one a Pickup and one a Dropoff, after a
\* DriverRequest that followed a drop-off
OneRideAtATimeWitness ==
    /\ NoDriverNamedTwice
    /\ \A d \in Drivers : Cardinality(PendingRides(d)) = 1
    /\ \E k \in DOMAIN events : events[k].kind = "Dropoff"
    /\ \E k \in DOMAIN events : events[k].kind = "Pickup"
    /\ Len(activities[DRIVER]) > 4

\* C27, as stated: whenever a RiderRequest executes while the waiting list
\* is non-empty, no registered driver is idle and request_driver assigns no
\* driver.
NoOvertaking ==
    [][(op' = <<"do", "RiderRequest">> /\ executed' # executed
          /\ waiting_list # <<>>)
         => /\ \A i \in DOMAIN driver_list : ~driver[driver_list[i]].is_idle
            /\ result'[2] = None]_vars

\* C27, as amended: in a run from well-formed initial events, whenever a
\* RiderRequest executes while the waiting list is non-empty, no registered
\* driver is idle, request_driver assigns no driver and the rider is
\* appended behind the riders already waiting.
NoOvertakingWellFormed ==
    [][(WellFormed /\ op' = <<"do", "RiderRequest">>
          /\ executed' # executed /\ waiting_list # <<>>)
         => /\ \A i \in DOMAIN driver_list : ~driver[driver_list[i]].is_idle
            /\ result'[2] = None
            /\ waiting_list' = Append(waiting_list, removed'.rider)]_vars

\* in a well-formed run a rider has just joined the waiting list behind
\* another one while a registered driver was busy with a third rider
NoOvertakingWitness ==
    /\ WellFormed
    /\ op = <<"do", "RiderRequest">>
    /\ result[2] = None
    /\ Len(waiting_list) = 2
    /\ driver_list # <<>>
    /\ \E r \in RunRiderObjects : rider[r].status = SATISFIED

\* rider r is named by exactly one initial RiderRequest
RequestsOnce(r) ==
    Cardinality({k \in DOMAIN initial_events :
                    /\ initial_events[k].kind = "RiderRequest"
                    /\ initial_events[k].rider = r}) = 1

\* the queued Cancellations of rider r with timestamp t
QueuedCancellations(r, t) ==
    {k \in DOMAIN events : /\ events[k].kind = "Cancellation"
                           /\ events[k].rider = r
                           /\ events[k].timestamp = t}

\* the Monitor has logged that the rider with this id cancelled at time t
CancelledAt(identifier, t) ==
    \E k \in DOMAIN activities[RIDER] :
        /\ activities[RIDER][k].id = identifier
        /\ activities[RIDER][k].description = CANCEL
        /\ activities[RIDER][k].time = t

RequestExecuted(r) ==
    \E u \in DOMAIN created, i \in DOMAIN executed :
        /\ created[u].kind = "RiderRequest"
        /\ created[u].rider = r
        /\ executed[i] = u

\* the queued Pickups of rider r, and all the Pickups created for it
PendingPickups(r) ==
    {k \in DOMAIN events : events[k].kind = "Pickup" /\ events[k].rider = r}
CreatedPickups(r) ==
    {u \in DOMAIN created : created[u].kind = "Pickup" /\ created[u].rider = r}

\* a rider that has requested and is WAITING is either on the waiting list
\* and named by no queued Pickup, or off the list and named by exactly one;
\* the riders on the waiting list are WAITING; a rider has had at most one
\* Pickup created
WaitingRiderPlaced ==
    /\ \A r \in DOMAIN rider :
          (RequestExecuted(r) /\ rider[r].status = WAITING)
            => \/ OnList(r, waiting_list) /\ PendingPickups(r) = {}
               \/ /\ ~OnList(r, waiting_list)
                  /\ Cardinality(PendingPickups(r)) = 1
    /\ \A k \in DOMAIN waiting_list : rider[waiting_list[k]].status = WAITING
    /\ \A r \in DOMAIN rider : Cardinality(CreatedPickups(r)) <= 1

\* C29, as stated: the placement of waiting riders after every executed
\* event of every run.
WaitingRiderPlacedAnyRun == WaitingRiderPlaced

\* C29, as amended: the same after every executed event of a run from
\* well-formed initial events.
WaitingRiderPlacedWellFormed == WellFormed => WaitingRiderPlaced

\* in a well-formed run one rider is on the waiting list, one is WAITING
\* with its Pickup queued, and one has been picked up
WaitingRiderPlacedWitness ==
    /\ WellFormed
    /\ pc = "run"
    /\ \E a, b, c \in DOMAIN rider :
          /\ OnList(a, waiting_list) /\ RequestExecuted(a)
          /\ rider[b].status = WAITING /\ PendingPickups(b) # {}
          /\ rider[c].status = SATISFIED /\ CreatedPickups(c) # {}

\* the riders named by the initial RiderRequests
InitialRiders ==
    {initial_events[k].rider : k \in {j \in DOMAIN initial_events :
                                  initial_events[j].kind = "RiderRequest"}}

\* every rider of the initial events is CANCELLED or SATISFIED, nobody is on
\* the waiting list and every driver is idle without a destination
AllResolved ==
    /\ \A r \in InitialRiders : rider[r].status \in {CANCELLED, SATISFIED}
    /\ waiting_list = <<>>
    /\ \A d \in DOMAIN driver :
          driver[d].is_idle /\ driver[d].destination = NoLocation

\* C30, as stated: when run returns, every rider is resolved, the waiting
\* list is empty and every driver is idle with no destination.
ResolvedAtReturn == pc = "done" => AllResolved

\* C30, as amended: run called with well-formed initial events returns (no
\* handler and no report raises), and when it returns every rider is
\* resolved, the waiting list is empty and every driver is idle with no
\* destination.
ResolvedAtReturnWellFormed ==
    WellFormed => /\ pc # "error"
                  /\ pc = "done" => AllResolved

\* a well-formed run has returned after one rider was dropped off, one
\* cancelled while waiting and one cancelled on the way of its driver
ResolvedAtReturnWitness ==
    /\ WellFormed
    /\ pc = "done"
    /\ Cardinality(InitialRiders) = 3
    /\ \E r \in InitialRiders : rider[r].status = SATISFIED
    /\ \E r \in InitialRiders : rider[r].status = CANCELLED
    /\ \E k \in DOMAIN activities[DRIVER] :
          activities[DRIVER][k].description = DROPOFF
    /\ Cardinality(RosterIds) = 2

\* the Dropoffs created for rider r, and the positions of the notifications
\* of one category and description in the log
CreatedDropoffs(r) ==
    {u \in DOMAIN created : created[u].kind = "Dropoff" /\ created[u].rider = r}
Notifications(category, description) ==
    {k \in DOMAIN activities[category] :
        activities[category][k].description = description}

\* a SATISFIED rider has had exactly one Dropoff created; when run is over,
\* by returning or by raising, every created Dropoff has executed and the
\* log holds as many RIDER PICKUPs as RIDER DROPOFFs and as DRIVER DROPOFFs
PickedUpDroppedOff ==
    /\ \A r \in DOMAIN rider :
          rider[r].status = SATISFIED => Cardinality(CreatedDropoffs(r)) = 1
    /\ pc \in {"done", "error"} =>
          /\ \A r \in DOMAIN rider : \A u \in CreatedDropoffs(r) :
                \E i \in DOMAIN executed : executed[i] = u
          /\ Cardinality(Notifications(RIDER, PICKUP))
                = Cardinality(Notifications(RIDER, DROPOFF))
          /\ Cardinality(Notifications(RIDER, PICKUP))
                = Cardinality(Notifications(DRIVER, DROPOFF))

\* C31, as stated: every rider that is picked up has exactly one Dropoff
\* created, which executes before the run ends, and at the end of the run the
\* log holds as many RIDER PICKUPs as RIDER DROPOFFs and as DRIVER DROPOFFs.
PickedUpDroppedOffAnyRun == PickedUpDroppedOff

\* C31, as amended: the same in every run whose initial events name no
\* driver object in two DriverRequests.
PickedUpDroppedOffDistinct == NoDriverNamedTwice => PickedUpDroppedOff

\* a run that names no driver twice has returned after two riders were
\* picked up and dropped off
PickedUpDroppedOffWitness ==
    /\ NoDriverNamedTwice
    /\ pc = "done"
    /\ Cardinality({r \in DOMAIN rider : rider[r].status = SATISFIED}) = 2
    /\ Cardinality(Notifications(RIDER, PICKUP)) = 2
    /\ Cardinality(Notifications(DRIVER, DROPOFF)) = 2

\* the log of rider id i has the shape REQUEST, then PICKUP or CANCEL, then
\* DROPOFF after a PICKUP only, and its times do not decrease
RiderLogShape(i) ==
    LET log == activities_of(activities, RIDER, i)
    IN  /\ Len(log) <= 3
        /\ Len(log) >= 1 => log[1].description = REQUEST
        /\ Len(log) >= 2 => /\ log[2].description \in {PICKUP, CANCEL}
                            /\ log[2].time - log[1].time >= 0
        /\ Len(log) = 3 => /\ log[2].description = PICKUP
                           /\ log[3].description = DROPOFF
                           /\ log[3].time >= log[2].time

\* the first activity of rider id i is logged at the time of the request of
\* the rider with that id, a CANCEL at the end of its patience and a PICKUP
\* no later than that
RiderLogTimes(i) ==
    LET log == activities_of(activities, RIDER, i)
        ks == {k \in DOMAIN initial_events :
                  /\ initial_events[k].kind = "RiderRequest"
                  /\ rider[initial_events[k].rider].id = i}
    IN  \A k \in ks :
            LET deadline == initial_events[k].timestamp
                              + rider[initial_events[k].rider].patience
            IN  /\ Len(log) >= 1 => log[1].time = initial_events[k].timestamp
                /\ Len(log) >= 2 =>
                      IF log[2].description = CANCEL
                      THEN log[2].time = deadline
                      ELSE log[2].time <= deadline

\* no two initial RiderRequests name the same rider or riders of one id
DistinctRiders ==
    \A k, l \in DOMAIN initial_events :
        (/\ k # l
         /\ initial_events[k].kind = "RiderRequest"
         /\ initial_events[l].kind = "RiderRequest")
          => /\ initial_events[k].rider # initial_events[l].rider
             /\ rider[initial_events[k].rider].id
                  # rider[initial_events[l].rider].id

DistinctDrivers ==
    \A k, l \in DOMAIN initial_events :
        (/\ k # l
         /\ initial_events[k].kind = "DriverRequest"
         /\ initial_events[l].kind = "DriverRequest")
          => /\ initial_events[k].driver # initial_events[l].driver
             /\ driver[initial_events[k].driver].id
                  # driver[initial_events[l].driver].id

\* the riders that are SATISFIED, and the sum over the riders in rs of the
\* distance from origin to destination
SatisfiedRiders == {r \in DOMAIN rider : rider[r].status = SATISFIED}
RECURSIVE RideLengths(_)
RideLengths(rs) ==
    IF rs = {} THEN 0
    ELSE LET r == CHOOSE x \in rs : TRUE
         IN  manhattan_distance(rider[r].origin, rider[r].destination)
               + RideLengths(rs \ {r})

\* in the log of every driver a DROPOFF comes right after a PICKUP
DropoffAfterPickup ==
    \A i \in actors(activities, DRIVER) :
        LET log == activities_of(activities, DRIVER, i)
        IN  \A k \in DOMAIN log :
                log[k].description = DROPOFF
                  => k > 1 /\ log[k - 1].description = PICKUP

\* a Dropoff that logs a DRIVER DROPOFF finds a PICKUP at the origin of its
\* rider as the last activity of its driver
DropoffFindsPickup ==
    op' = <<"do", "Dropoff">> =>
        LET r == removed'.rider
            i == driver[removed'.driver].id
            before == activities_of(activities, DRIVER, i)
            after == activities_of(activities', DRIVER, i)
        IN  Len(after) > Len(before) =>
               /\ after[Len(after)].description = DROPOFF
               /\ after[Len(after)].location = rider[r].destination
               /\ Len(before) >= 1
               /\ before[Len(before)].description = PICKUP
               /\ before[Len(before)].location = rider[r].origin

\* when run returns, _average_ride_distance counts one ride per SATISFIED
\* rider and adds up the distances from their origins to their destinations
RidesCounted ==
    pc = "done" =>
        LET total == ride_distances(driver_logs(activities, activities[DRIVER]),
                                    1, NoLocation)
        IN  /\ total.total_rides = Cardinality(SatisfiedRiders)
            /\ total.total_distance = RideLengths(SatisfiedRiders)

InitDispatcher ==
    /\ events = <<>>
    /\ next_uid = 1
    /\ removed = NoEvent
    /\ produced = <<>>
    /\ initial_events = <<>>
    /\ rider \in {f \in [Riders -> AllRiderChoices] :
                     \A i \in Riders : f[i] \in RiderChoices(i)
                                       /\ f[i].id = i /\ f[i].patience = 0}
    /\ driver \in {f \in [Drivers -> AllDriverChoices] :
                     \A j \in Drivers : f[j] \in DriverChoices(j)}
    /\ waiting_list = <<>>
    /\ driver_list = <<>>
    /\ activities = NoActivities
    /\ pc = "dispatcher"
    /\ op = <<"new">>
    /\ result = NoAnswer
    /\ executed = <<>>
    /\ created = <<>>

CallRequestDriver(r) ==
    /\ pc = "dispatcher"
    /\ ~request_driver_raises(driver_list, driver, rider[r].origin)
    /\ Len(request_driver_waiting(waiting_list, driver_list, driver, r))
         <= MaxWaiting
    /\ result' = <<"request_driver",
                   request_driver(driver_list, driver, rider[r].origin), r>>
    /\ waiting_list' = request_driver_waiting(waiting_list, driver_list,
                                              driver, r)
    /\ UNCHANGED <<created, executed, events, next_uid, removed, produced,
                   rider, driver,
                   driver_list, activities, pc, initial_events, op>>

CallRequestRider(d) ==
    /\ pc = "dispatcher"
    /\ result' = <<"request_rider", request_rider(waiting_list), d>>
    /\ driver_list' = request_rider_roster(driver_list, driver, d)
    /\ waiting_list' = request_rider_waiting(waiting_list)
    /\ UNCHANGED <<created, executed, events, next_uid, removed, produced,
                   rider, driver,
                   activities, pc, initial_events, op>>

CallStartDrive(d, r) ==
    /\ pc = "dispatcher"
    /\ ~get_travel_time_raises(driver[d], rider[r].origin)
    /\ driver' = [driver EXCEPT ![d] = start_drive(driver[d], rider[r].origin)]
    /\ result' = <<"start_drive",
                   get_travel_time(driver'[d], rider[r].origin), d>>
    /\ UNCHANGED <<created, executed, events, next_uid, removed, produced,
                   rider, waiting_list,
                   driver_list, activities, pc, initial_events, op>>

CallEndDrive(d) ==
    /\ pc = "dispatcher"
    /\ driver[d].destination # NoLocation
    /\ driver' = [driver EXCEPT ![d] = end_drive(driver[d])]
    /\ result' = <<"end_drive", None, d>>
    /\ UNCHANGED <<created, executed, events, next_uid, removed, produced,
                   rider, waiting_list,
                   driver_list, activities, pc, initial_events, op>>

NextDispatcher ==
    \/ \E r \in Riders : CallRequestDriver(r)
    \/ \E d \in Drivers : CallRequestRider(d)
    \/ \E d \in Drivers, r \in Riders : CallStartDrive(d, r)
    \/ \E d \in Drivers : CallEndDrive(d)

SpecDispatcher == InitDispatcher /\ [][NextDispatcher]_vars


(***************************************************************************)
(* Specification SpecCalls: the methods of the drivers, cancel_ride of the *)
(* Dispatcher and Dropoff.do called directly, in any order and in any      *)
(* state, as the public classes allow.  Both drivers are registered; the   *)
(* waiting list starts as some sequence of request_driver calls made while *)
(* no driver was idle leaves it (a rider may have been appended twice), a  *)
(* rider may have been picked up before, and two rider objects may carry   *)
(* the same id.  Dropoff.do is applied once, to any state the other calls  *)
(* reach, and is the last call.  start_drive is called with targets of its *)
(* own and end_drive also where its precondition holds.                    *)
(***************************************************************************)
WaitingLists == UNION {[1..n -> Riders] : n \in 0..2}

InitCalls ==
    /\ events = <<>>
    /\ next_uid = 1
    /\ removed = NoEvent
    /\ produced = <<>>
    /\ initial_events = <<>>
    /\ rider \in {f \in [Riders -> [id : Riders, patience : {0},
                                    origin : Origins,
                                    destination : Destinations,
                                    status : {WAITING, SATISFIED}]] :
                     \A i \in Riders :
                         /\ f[i].id \in {1, i}
                         /\ f[i].origin = Location(0, 0)}
    /\ driver \in {f \in [Drivers -> AllDriverChoices] :
                     \A j \in Drivers :
                         /\ f[j] \in DriverChoices(j)
                         /\ f[j].id = j
                         /\ f[j].speed = 1}
    /\ waiting_list \in WaitingLists
    /\ driver_list = <<1, 2>>
    /\ activities = NoActivities
    /\ pc = "dispatcher"
    /\ op = <<"new">>
    /\ result = NoAnswer
    /\ executed = <<>>
    /\ created = <<>>

\* dispatcher.cancel_ride(r)
CallCancelRide(r) ==
    /\ pc = "dispatcher"
    /\ rider' = cancel_ride_riders(rider, r)
    /\ waiting_list' = cancel_ride_waiting(waiting_list, rider, r)
    /\ result' = <<"cancel_ride", None, r>>
    /\ UNCHANGED <<created, executed, events, next_uid, removed, produced,
                   driver, driver_list,
                   activities, pc, initial_events, op>>

\* d.end_drive() on a driver without a destination: the method does not
\* look at its precondition, it assigns as in any other state
CallEndDriveNoDestination(d) ==
    /\ pc = "dispatcher"
    /\ driver[d].destination = NoLocation
    /\ driver' = [driver EXCEPT ![d] = end_drive(driver[d])]
    /\ result' = <<"end_drive", None, d>>
    /\ UNCHANGED <<created, executed, events, next_uid, removed, produced,
                   rider, waiting_list,
                   driver_list, activities, pc, initial_events, op>>

\* d.start_ride(r)
CallStartRide(d, r) ==
    /\ pc = "dispatcher"
    /\ driver' = [driver EXCEPT ![d] = start_ride(driver[d], rider[r])]
    /\ result' = <<"start_ride",
                   get_travel_time(driver'[d], rider[r].destination), d>>
    /\ UNCHANGED <<created, executed, events, next_uid, removed, produced,
                   rider, waiting_list,
                   driver_list, activities, pc, initial_events, op>>

\* d.end_ride(), with or without a destination
CallEndRide(d) ==
    /\ pc = "dispatcher"
    /\ driver' = [driver EXCEPT ![d] = end_ride(driver[d])]
    /\ result' = <<"end_ride", None, d>>
    /\ UNCHANGED <<created, executed, events, next_uid, removed, produced,
                   rider, waiting_list,
                   driver_list, activities, pc, initial_events, op>>

\* Dropoff(t, r, d).do(dispatcher, monitor)
CallDropoffDo(t, r, d) ==
    /\ pc = "dispatcher"
    /\ LET out == Dropoff_do(Dropoff(t, r, d), World)
       IN  /\ removed' = Dropoff(t, r, d)
           /\ produced' = out.events
           /\ rider' = out.world.rider
           /\ driver' = out.world.driver
           /\ waiting_list' = out.world.waiting_list
           /\ driver_list' = out.world.driver_list
           /\ activities' = out.world.activities
           /\ result' = out.answer
    /\ op' = <<"do", "Dropoff">>
    /\ pc' = "handled"
    /\ UNCHANGED <<created, executed, events, next_uid, initial_events>>

\* the places a caller sends a driver to
StartDriveTargets == {Location(0, 1), Location(3, 3)}

\* d.start_drive(location); op keeps the argument.  A driver without a
\* location has its fields assigned before get_travel_time raises.
CallStartDriveTo(d, location) ==
    /\ pc = "dispatcher"
    /\ driver' = [driver EXCEPT ![d] = start_drive(driver[d], location)]
    /\ op' = <<"start_drive", location>>
    /\ IF get_travel_time_raises(driver'[d], location)
       THEN /\ result' = <<"start_drive raises", None, d>>
            /\ pc' = "error"
       ELSE /\ result' = <<"start_drive",
                           get_travel_time(driver'[d], location), d>>
            /\ pc' = pc
    /\ UNCHANGED <<created, executed, events, next_uid, removed, produced,
                   rider, waiting_list,
                   driver_list, activities, initial_events>>

NextCalls ==
    \/ \E r \in Riders : CallCancelRide(r)
    \/ \E d \in Drivers : CallEndDriveNoDestination(d)
    \/ \E d \in Drivers, l \in StartDriveTargets : CallStartDriveTo(d, l)
    \/ \E d \in Drivers : CallEndDrive(d)
    \/ \E d \in Drivers, r \in Riders : CallStartRide(d, r)
    \/ \E d \in Drivers : CallEndRide(d)
    \/ \E t \in 0..MaxTime, r \in Riders, d \in Drivers : CallDropoffDo(t, r, d)

SpecCalls == InitCalls /\ [][NextCalls]_vars

(***************************************************************************)
(* Properties of the methods called directly (specification SpecCalls).    *)
(***************************************************************************)
\* C15: a Dropoff(rider, driver) executed at time t ends the ride (the
\* driver is idle, at its former destination, with no destination) and
\* returns exactly one event, a DriverRequest for the same driver at time t;
\* RIDER/DROPOFF and DRIVER/DROPOFF are logged, both at rider.destination,
\* if the rider's status is SATISFIED, and nothing is logged otherwise.
DropoffEndsRide ==
    [][(op' = <<"do", "Dropoff">> /\ result' = NoAnswer)
          => LET r == removed'.rider
                 d == removed'.driver
                 t == removed'.timestamp
             IN  /\ driver' = [driver EXCEPT
                                 ![d].is_idle = TRUE,
                                 ![d].location = driver[d].destination,
                                 ![d].destination = NoLocation]
                 /\ produced' = <<DriverRequest(t, d)>>
                 /\ rider' = rider
                 /\ waiting_list' = waiting_list
                 /\ driver_list' = driver_list
                 /\ activities' =
                      IF rider[r].status = SATISFIED
                      THEN [activities EXCEPT
                              ![RIDER] = Append(@, Activity(t, DROPOFF,
                                  rider[r].id, rider[r].destination)),
                              ![DRIVER] = Append(@, Activity(t, DROPOFF,
                                  driver[d].id, rider[r].destination))]
                      ELSE activities]_vars

\* a Dropoff after time 0 has just ended the ride of a SATISFIED rider and
\* logged both DROPOFF activities at the rider's destination
DropoffEndsRideWitness ==
    /\ op = <<"do", "Dropoff">>
    /\ result = NoAnswer
    /\ removed.timestamp > 0
    /\ rider[removed.rider].status = SATISFIED
    /\ produced = <<DriverRequest(removed.timestamp, removed.driver)>>
    /\ driver[removed.driver].is_idle
    /\ driver[removed.driver].location = rider[removed.rider].destination
    /\ Len(activities[DRIVER]) = 1
    /\ activities[DRIVER][1].description = DROPOFF
    /\ activities[RIDER][1].description = DROPOFF
    /\ activities[RIDER][1].location = rider[removed.rider].destination

\* C19: end_drive or end_ride called on a driver whose destination is empty
\* signals an error and does not complete as a normal state change: the
\* driver is left as it was, in particular not with an empty location.
EndWithoutDestinationSignals ==
    [][\A d \in Drivers :
          (/\ result' \in {<<"end_drive", None, d>>, <<"end_ride", None, d>>}
           /\ driver[d].destination = NoLocation)
            => /\ pc' = "error"
               /\ driver'[d] = driver[d]
               /\ driver'[d].location # NoLocation]_vars

\* C20: cancel_ride(r) sets the status of r to CANCELLED, leaves no entry
\* equal to r on the waiting list, keeps the other waiting riders in their
\* order and the roster and the drivers as they are; cancel_ride(r) applied
\* again right after changes nothing.
CancelRideIdempotent ==
    [][\A r \in Riders :
          /\ result' = <<"cancel_ride", None, r>>
               => /\ rider' = [rider EXCEPT ![r].status = CANCELLED]
                  /\ \A k \in DOMAIN waiting_list' :
                        ~Rider__eq__(rider[waiting_list'[k]], rider[r])
                  /\ waiting_list' =
                       SelectSeq(waiting_list,
                                 LAMBDA w : ~Rider__eq__(rider[w], rider[r]))
                  /\ driver_list' = driver_list
                  /\ driver' = driver
                  /\ activities' = activities
          /\ (result = <<"cancel_ride", None, r>> /\ result' = result)
               => /\ rider' = rider
                  /\ waiting_list' = waiting_list]_vars

(***************************************************************************)
(* Properties of the Dispatcher's methods (specification SpecDispatcher).  *)
(***************************************************************************)
\* the roster positions of the idle drivers
IdleRoster == {i \in DOMAIN driver_list : driver[driver_list[i]].is_idle}

TravelTime(d, r) == get_travel_time(driver[d], rider[r].origin)

\* C3: when a roster driver is idle, request_driver(rider) returns an idle
\* roster driver whose travel time to rider.origin is minimal among the idle
\* roster drivers and, among those with that travel time, the one that was
\* registered first.
RequestDriverNearest ==
    [][\A r \in Riders :
          (/\ result'[1] = "request_driver"
           /\ result'[3] = r
           /\ IdleRoster # {})
            => \E i \in IdleRoster :
                  /\ result'[2] = driver_list[i]
                  /\ \A j \in IdleRoster :
                        \/ TravelTime(driver_list[i], r)
                             < TravelTime(driver_list[j], r)
                        \/ /\ TravelTime(driver_list[i], r)
                                = TravelTime(driver_list[j], r)
                           /\ i <= j]_vars

\* request_driver has just returned the first of two idle roster drivers
\* that are equally far from the rider
RequestDriverNearestWitness ==
    /\ result[1] = "request_driver"
    /\ Len(driver_list) = 2
    /\ IdleRoster = {1, 2}
    /\ result[2] = driver_list[1]
    /\ TravelTime(driver_list[1], result[3])
         = TravelTime(driver_list[2], result[3])
    /\ driver[driver_list[1]].location # driver[driver_list[2]].location

\* C4: with no idle driver (empty roster or all drivers busy)
\* request_driver(rider) returns None and appends the rider once at the end
\* of the waiting list; the roster, the drivers, the riders and the other
\* entries of the waiting list stay as they are.
RequestDriverNoneIdle ==
    [][\A r \in Riders :
          (/\ result'[1] = "request_driver"
           /\ result'[3] = r
           /\ IdleRoster = {})
            => /\ result'[2] = None
               /\ waiting_list' = Append(waiting_list, r)
               /\ driver_list' = driver_list
               /\ driver' = driver
               /\ rider' = rider]_vars

\* request_driver has just put a rider behind another one while every
\* roster driver was busy
RequestDriverNoneIdleWitness ==
    /\ result[1] = "request_driver"
    /\ result[2] = None
    /\ driver_list # <<>>
    /\ Len(waiting_list) >= 2
    /\ waiting_list[Len(waiting_list)] = result[3]
    /\ waiting_list[1] # result[3]

\* C5: request_rider(driver) returns and removes the rider at the front of
\* the waiting list, or returns None when the list is empty; successive
\* calls thus return the riders in the order request_driver appended them.
RequestRiderFifo ==
    [][(result'[1] = "request_rider")
          => IF waiting_list = <<>>
             THEN result'[2] = None /\ waiting_list' = <<>>
             ELSE /\ result'[2] = Head(waiting_list)
                  /\ waiting_list' = Tail(waiting_list)]_vars

\* request_rider has just returned the front rider and a different rider is
\* now at the front
RequestRiderFifoWitness ==
    /\ result[1] = "request_rider"
    /\ result[2] # None
    /\ waiting_list # <<>>
    /\ Head(waiting_list) # result[2]

\* C6: request_rider registers the driver only if no driver with the same
\* id is on the roster, so the roster never holds two drivers with the same
\* id, and a registered driver stays on the roster at its position.
HasId(dl, identifier) == \E i \in DOMAIN dl : driver[dl[i]].id = identifier

RegistrationIdempotent ==
    /\ [](\A i, j \in DOMAIN driver_list :
             i # j => driver[driver_list[i]].id # driver[driver_list[j]].id)
    /\ [][/\ Len(driver_list') >= Len(driver_list)
          /\ SubSeq(driver_list', 1, Len(driver_list)) = driver_list
          /\ (result'[1] = "request_rider"
                => driver_list' =
                     IF HasId(driver_list, driver[result'[3]].id)
                     THEN driver_list
                     ELSE Append(driver_list, result'[3]))
          /\ (result'[1] # "request_rider" => driver_list' = driver_list)]_vars

\* request_rider has just been called with a driver object that is not on
\* the roster while another object with its id is
RegistrationIdempotentWitness ==
    /\ result[1] = "request_rider"
    /\ ~OnList(result[3], driver_list)
    /\ HasId(driver_list, driver[result[3]].id)


\* C21: request_driver changes no driver (idle flag, location, destination)
\* and no rider, and when it returns a driver it leaves the waiting list
\* and the roster as they were.
RequestDriverFrame ==
    [][\A r \in Riders, a \in Drivers \cup {None} :
          result' = <<"request_driver", a, r>>
            => /\ driver' = driver
               /\ rider' = rider
               /\ a # None => /\ waiting_list' = waiting_list
                              /\ driver_list' = driver_list]_vars

\* request_driver has just returned a driver while a rider was waiting and
\* the other registered driver was on its way
RequestDriverFrameWitness ==
    /\ result[1] = "request_driver"
    /\ result[2] # None
    /\ waiting_list # <<>>
    /\ Len(driver_list) = 2
    /\ \E i \in DOMAIN driver_list : ~driver[driver_list[i]].is_idle


\* the state end_drive and end_ride are documented to leave
Arrived(self) ==
    [self EXCEPT !.is_idle = TRUE, !.location = self.destination,
                 !.destination = NoLocation]

\* C24: start_drive(target) that returns sets idle to false and the
\* destination to target, keeps the location and returns the travel time
\* from the location to target; an end_drive() that follows sets the
\* location to target, clears the destination and sets idle to true (from
\* (1,1) at speed 1 to (3,3): 4, then location (3,3)); end_drive() and
\* end_ride() lead to the same state from any driver state.
StartThenEndDrive ==
    [][\A d \in Drivers, l \in StartDriveTargets :
          /\ (op' = <<"start_drive", l>> /\ result'[1] = "start_drive"
                /\ result'[3] = d)
               => /\ driver' = [driver EXCEPT ![d].is_idle = FALSE,
                                              ![d].destination = l]
                  /\ result'[2] = round(manhattan_distance(
                                     driver[d].location, l), driver[d].speed)
                  /\ (driver[d].location = Location(1, 1)
                        /\ driver[d].speed = 1 /\ l = Location(3, 3))
                       => result'[2] = 4
          /\ (op = <<"start_drive", l>> /\ result[1] = "start_drive"
                /\ result[3] = d /\ result' = <<"end_drive", None, d>>)
               => driver' = [driver EXCEPT ![d].is_idle = TRUE,
                                           ![d].location = l,
                                           ![d].destination = NoLocation]
          /\ result' \in {<<"end_drive", None, d>>, <<"end_ride", None, d>>}
               => driver' = [driver EXCEPT ![d] = Arrived(driver[d])]]_vars

\* a driver that started from (1,1) for (3,3) has arrived there by
\* end_drive
StartThenEndDriveWitness ==
    /\ op = <<"start_drive", Location(3, 3)>>
    /\ \E d \in Drivers :
          /\ result = <<"end_drive", None, d>>
          /\ driver[d] = [Driver(d, Location(3, 3), 1)
                            EXCEPT !.is_idle = TRUE]


(***************************************************************************)
(* Specification SpecTravel: travel times.  Two drivers stand anywhere on  *)
(* row 0 up to column MaxDistance, with speeds up to MaxSpeed, and rider 1 *)
(* is at (0,0) with a destination up to MaxDistance rows away.  Either     *)
(* both drivers are registered and idle and nobody waits, or no driver is  *)
(* registered and rider 1 waits.  get_travel_time and request_driver are   *)
(* called directly; RiderRequest.do or DriverRequest.do is applied once    *)
(* and then the Pickup it returned.                                        *)
(***************************************************************************)
InitTravel ==
    /\ events = <<>>
    /\ next_uid = 1
    /\ removed = NoEvent
    /\ produced = <<>>
    /\ initial_events = <<>>
    /\ \E e \in 0..MaxDistance :
          rider = [i \in Riders |->
                      IF i = 1
                      THEN Rider(1, 0, Location(0, 0), Location(e, 0))
                      ELSE UnusedRider(i)]
    /\ driver \in {f \in [Drivers -> [id : Drivers,
                                      location : {Location(0, c) :
                                                    c \in 0..MaxDistance},
                                      destination : {NoLocation},
                                      speed : 1..MaxSpeed,
                                      is_idle : {TRUE}]] :
                     \A j \in Drivers : f[j].id = j}
    /\ \/ waiting_list = <<>> /\ driver_list = <<1, 2>>
       \/ waiting_list = <<1>> /\ driver_list = <<>>
    /\ activities = NoActivities
    /\ pc = "travel"
    /\ op = <<"new">>
    /\ result = NoAnswer
    /\ executed = <<>>
    /\ created = <<>>

\* d.get_travel_time(destination); op keeps the argument
TravelGetTravelTime(d, destination) ==
    /\ pc = "travel"
    /\ op' = <<"get_travel_time", destination>>
    /\ result' = <<"get_travel_time",
                   get_travel_time(driver[d], destination), d>>
    /\ UNCHANGED <<created, executed, events, next_uid, removed, produced,
                   rider, driver, waiting_list, driver_list, activities,
                   initial_events, pc>>

\* dispatcher.request_driver(r) while a driver is idle
TravelRequestDriver(r) ==
    /\ pc = "travel"
    /\ driver_list # <<>>
    /\ op' = <<"request_driver", rider[r].origin>>
    /\ result' = <<"request_driver",
                   request_driver(driver_list, driver, rider[r].origin), r>>
    /\ UNCHANGED <<created, executed, events, next_uid, removed, produced,
                   rider, driver, waiting_list, driver_list, activities,
                   initial_events, pc>>

\* the handler of event ev is applied
TravelDo(ev, out, next_pc) ==
    /\ removed' = ev
    /\ op' = <<"do", ev.kind>>
    /\ produced' = out.events
    /\ rider' = out.world.rider
    /\ driver' = out.world.driver
    /\ waiting_list' = out.world.waiting_list
    /\ driver_list' = out.world.driver_list
    /\ activities' = out.world.activities
    /\ result' = out.answer
    /\ pc' = next_pc
    /\ UNCHANGED <<created, executed, events, next_uid, initial_events>>

\* RiderRequest(t, r).do(dispatcher, monitor) while both drivers are idle
TravelRiderRequestDo(t, r) ==
    /\ pc = "travel"
    /\ driver_list # <<>>
    /\ TravelDo(RiderRequest(t, r),
                RiderRequest_do(RiderRequest(t, r), World), "matched")

\* DriverRequest(t, d).do(dispatcher, monitor) while rider 1 waits
TravelDriverRequestDo(t, d) ==
    /\ pc = "travel"
    /\ waiting_list # <<>>
    /\ TravelDo(DriverRequest(t, d),
                DriverRequest_do(DriverRequest(t, d), World), "matched")

\* the Pickup that the request returned is applied
TravelPickupDo ==
    /\ pc = "matched"
    /\ \E k \in DOMAIN produced :
          /\ produced[k].kind = "Pickup"
          /\ TravelDo(produced[k], Pickup_do(produced[k], World), "riding")

NextTravel ==
    \/ \E d \in Drivers : TravelGetTravelTime(d, rider[1].origin)
    \/ TravelRequestDriver(1)
    \/ \E t \in 0..MaxTime : TravelRiderRequestDo(t, 1)
    \/ \E t \in 0..MaxTime, d \in Drivers : TravelDriverRequestDo(t, d)
    \/ TravelPickupDo

SpecTravel == InitTravel /\ [][NextTravel]_vars

(***************************************************************************)
(* Properties of the travel times (specification SpecTravel).              *)
(***************************************************************************)
\* n is an integer nearest to distance / speed and, where distance / speed
\* lies halfway between two integers, the even one
NearestHalfEven(n, distance, speed) ==
    \/ 2 * abs(distance - speed * n) < speed
    \/ 2 * abs(distance - speed * n) = speed /\ n % 2 = 0

\* the travel time of driver record self to destination, as stated
RoundedTravelTime(self, destination) ==
    CHOOSE n \in 0..(2 * MaxDistance + 1) :
        NearestHalfEven(n, manhattan_distance(self.location, destination),
                        self.speed)

\* C34: get_travel_time returns the integer nearest to distance / speed,
\* exact halves going to the even integer (5 at speed 2 gives 2, 7 at speed
\* 2 gives 4); request_driver compares these rounded times (it returns the
\* first idle driver of the roster among those with the least one), and
\* the Pickup and the Dropoff are stamped with the time of the handler plus
\* the rounded time.
TravelTimeHalfEven ==
    [][/\ \A d \in Drivers :
            result' = <<"get_travel_time", result'[2], d>>
              => LET distance == manhattan_distance(driver[d].location,
                                                    op'[2])
                 IN  /\ NearestHalfEven(result'[2], distance, driver[d].speed)
                     /\ \A n \in 0..(2 * MaxDistance + 1) :
                           NearestHalfEven(n, distance, driver[d].speed)
                             => n = result'[2]
                     /\ (distance = 5 /\ driver[d].speed = 2)
                          => result'[2] = 2
                     /\ (distance = 7 /\ driver[d].speed = 2)
                          => result'[2] = 4
       /\ result'[1] = "request_driver" /\ result'[2] # None
            => \E i \in DOMAIN driver_list :
                  /\ driver_list[i] = result'[2]
                  /\ \A j \in DOMAIN driver_list :
                        LET mine == RoundedTravelTime(driver[driver_list[i]],
                                               rider[result'[3]].origin)
                            other == RoundedTravelTime(driver[driver_list[j]],
                                                rider[result'[3]].origin)
                        IN  mine <= other /\ (j < i => mine < other)
       /\ op' \in {<<"do", "RiderRequest">>, <<"do", "DriverRequest">>}
            => \E k \in DOMAIN produced' :
                  /\ produced'[k].kind = "Pickup"
                  /\ produced'[k].timestamp
                       = removed'.timestamp
                           + RoundedTravelTime(driver[produced'[k].driver],
                                        rider[produced'[k].rider].origin)
       /\ op' = <<"do", "Pickup">>
            => /\ Len(produced') = 1
               /\ produced'[1].kind = "Dropoff"
               /\ produced'[1].timestamp
                    = removed'.timestamp
                        + round(manhattan_distance(
                                   rider[removed'.rider].origin,
                                   rider[removed'.rider].destination),
                                driver[removed'.driver].speed)
               /\ NearestHalfEven(produced'[1].timestamp - removed'.timestamp,
                                  manhattan_distance(
                                     rider[removed'.rider].origin,
                                     rider[removed'.rider].destination),
                                  driver[removed'.driver].speed)]_vars

\* a driver 5 away at speed 2, first of the roster, was matched although
\* the other driver is 4 away at speed 2, its Pickup was stamped 2 later
\* than the request, and the Dropoff after a ride of 7 at speed 2 is stamped
\* 4 later than the Pickup
TravelTimeHalfEvenWitness ==
    /\ pc = "riding"
    /\ driver_list = <<1, 2>>
    /\ driver[1].speed = 2 /\ driver[2].speed = 2
    /\ driver[2].location = Location(0, 4)
    /\ rider[1].destination = Location(7, 0)
    /\ removed.kind = "Pickup" /\ removed.driver = 1
    /\ removed.timestamp = 2
    /\ produced = <<Dropoff(6, 1, 1)>>

=============================================================================
